---- MODULE Spec2Model ----
(***************************************************************************)
(* WaveLogStoat: a UDP listener that receives QSO records as XML or ADIF   *)
(* text, parses them into a flat QSO record, normalises power and band,    *)
(* re-serialises the record as ADIF and submits it to WaveLog over HTTP.   *)
(*                                                                         *)
(* Text is modelled as a sequence of bytes, each written as a string: the  *)
(* printable ASCII characters other than the grave accent, and tab, line   *)
(* feed, form feed and carriage return, are written as themselves; every   *)
(* other byte is written as x and its two hexadecimal digits ("x60" is the *)
(* grave accent, "x0B" the vertical tab, "xC3", "xA9" the two bytes of     *)
(* U+00E9 in UTF-8).  Offsets into text are Go offsets (0-based);          *)
(* Slice(s, a, b) is Go's s[a:b].                                          *)
(***************************************************************************)
EXTENDS Integers, Sequences, FiniteSets, TLC

(***************************************************************************)
(* Bounds of the model.                                                    *)
(***************************************************************************)
\* Width in bits of Go's int in the model (32 or 64 in a real build).
IntBits == 16
\* Datagrams the listener receives in one behaviour of the pipeline.
MaxDatagrams == 2
\* Tag chunks in one payload handed to the parser on its own.
MaxChunks == 3
\* Records in one batch payload handed to the splitter on its own.
MaxRecords == 2

MaxInt == 2 ^ (IntBits - 1) - 1
MinInt == 0 - 2 ^ (IntBits - 1)
\* Two's-complement wrap-around of a Go int addition result.
WrapInt(x) == ((x - MinInt) % 2 ^ IntBits) + MinInt

(***************************************************************************)
(* Characters.                                                             *)
(***************************************************************************)
UpperChars == <<"A","B","C","D","E","F","G","H","I","J","K","L","M",
                "N","O","P","Q","R","S","T","U","V","W","X","Y","Z">>
LowerChars == <<"a","b","c","d","e","f","g","h","i","j","k","l","m",
                "n","o","p","q","r","s","t","u","v","w","x","y","z">>
DigitChars == <<"0","1","2","3","4","5","6","7","8","9">>
Range(f) == {f[i] : i \in DOMAIN f}
UpperSet == Range(UpperChars)
LowerSet == Range(LowerChars)
DigitSet == Range(DigitChars)
\* The class [a-zA-Z_] of the tag regular expression.
NameClass == UpperSet \cup LowerSet \cup {"_"}
\* The byte n as it is written in the model.
ByteChars ==
  [n \in 0..255 |->
     IF n \in {9, 10, 12, 13} THEN <<"\t", "\n", "", "\f", "\r">>[n - 8]
     ELSE IF n \in 32..47
       THEN <<" ","!","\"","#","$","%","&","'","(",")","*","+",",","-",".","/">>[n - 31]
     ELSE IF n \in 48..57 THEN DigitChars[n - 47]
     ELSE IF n \in 58..64 THEN <<":",";","<","=",">","?","@">>[n - 57]
     ELSE IF n \in 65..90 THEN UpperChars[n - 64]
     ELSE IF n \in 91..95 THEN <<"[","\\","]","^","_">>[n - 90]
     ELSE IF n \in 97..122 THEN LowerChars[n - 96]
     ELSE IF n \in 123..126 THEN <<"{","|","}","~">>[n - 122]
     ELSE "x" \o (DigitChars \o UpperChars)[(n \div 16) + 1]
              \o (DigitChars \o UpperChars)[(n % 16) + 1]]
\* The value of a byte of text.
ByteOf == [c \in Range(ByteChars) |-> CHOOSE n \in 0..255 : ByteChars[n] = c]

\* The ASCII case mappings of a byte (the fast paths of strings.ToUpper and
\* strings.ToLower, and strconv's lower).
ToUpperChar(c) ==
  IF c \in LowerSet THEN UpperChars[CHOOSE i \in 1..26 : LowerChars[i] = c] ELSE c
ToLowerChar(c) ==
  IF c \in UpperSet THEN LowerChars[CHOOSE i \in 1..26 : UpperChars[i] = c] ELSE c
\* The value of a digit: 0..9 for a decimal digit, 10..35 for a letter.
DigitValue(c) ==
  IF c \in DigitSet THEN (CHOOSE i \in 1..10 : DigitChars[i] = c) - 1
  ELSE 9 + (CHOOSE i \in 1..26 : LowerChars[i] = ToLowerChar(c))

(***************************************************************************)
(* Evaluation.  The({F(v) : v \in {x}}) is F(x) with x evaluated once: TLC  *)
(* binds the variable of a set constructor to a value, while it may        *)
(* evaluate a LET definition or an operator argument anew at every use.    *)
(* The operators below bind in this way every value they read more than    *)
(* once.                                                                   *)
(***************************************************************************)
The(S) == CHOOSE r \in S : TRUE
\* The loop "for k from lo to hi: st = F(st, k)", run in halves so that the
\* evaluation stays shallow on long texts and numbers.
RECURSIVE Fold(_, _, _, _)
Fold(F(_, _), st, lo, hi) ==
  IF lo > hi THEN st
  ELSE IF lo = hi THEN F(st, lo)
  ELSE The({The({Fold(F, left, mid + 1, hi) : left \in {Fold(F, st, lo, mid)}}) :
            mid \in {(lo + hi) \div 2}})
MinOf(S) == CHOOSE i \in S : \A j \in S : i <= j
MaxOf(S) == CHOOSE i \in S : \A j \in S : i >= j
Min(a, b) == IF a <= b THEN a ELSE b

(***************************************************************************)
(* The string functions of the Go library the program calls.               *)
(***************************************************************************)
Slice(s, a, b) == SubSeq(s, a + 1, b)
HasPrefixAt(s, sub, i) ==
  /\ i + Len(sub) <= Len(s)
  /\ \A k \in 1..Len(sub) : s[i + k] = sub[k]
\* Offset of the first occurrence of sub in s at or after offset p, or -1.
IndexFrom(s, sub, p) ==
  The({IF hits = {} THEN 0 - 1 ELSE MinOf(hits) :
       hits \in {{i \in p..(Len(s) - Len(sub)) : HasPrefixAt(s, sub, i)}}})
\* strings.Index: offset of the first occurrence of sub in s, or -1.
Index(s, sub) == IndexFrom(s, sub, 0)
Contains(s, sub) == \E i \in 0..(Len(s) - Len(sub)) : HasPrefixAt(s, sub, i)
(***************************************************************************)
(* UTF-8 and Unicode, as the packages unicode/utf8, unicode and strings    *)
(* implement them.                                                         *)
(***************************************************************************)
\* utf8.EncodeRune, and string(rune(r)): the bytes of the code point r, and
\* those of U+FFFD for a surrogate and for a number beyond U+10FFFF.
EncodeRune(r) ==
  LET bytes(ns) == [k \in 1..Len(ns) |-> ByteChars[ns[k]]]
  IN  IF r < 128 THEN bytes(<<r>>)
      ELSE IF r < 2048 THEN bytes(<<192 + (r \div 64), 128 + (r % 64)>>)
      ELSE IF r > 1114111 \/ r \in 55296..57343 THEN bytes(<<239, 191, 189>>)
      ELSE IF r < 65536
        THEN bytes(<<224 + (r \div 4096), 128 + ((r \div 64) % 64), 128 + (r % 64)>>)
      ELSE bytes(<<240 + (r \div 262144), 128 + ((r \div 4096) % 64),
                   128 + ((r \div 64) % 64), 128 + (r % 64)>>)
\* utf8.DecodeRuneInString(s[i:]) for i < len(s): the code point that starts
\* at offset i and the number of its bytes; U+FFFD and one byte when the
\* bytes there are no UTF-8 (a stray or missing continuation byte, an
\* overlong form, a surrogate, a number beyond U+10FFFF).  b holds the
\* bytes at the offsets i..i+3, 0 beyond the end.
DecodeRune(s, i) ==
  IF ByteOf[s[i + 1]] < 128 THEN [rune |-> ByteOf[s[i + 1]], size |-> 1]
  ELSE
  The({IF b[0] \in 194..223 /\ b[1] \in 128..191
         THEN [rune |-> (b[0] - 192) * 64 + (b[1] - 128), size |-> 2]
       ELSE IF /\ b[0] \in 224..239
               /\ b[1] \in (IF b[0] = 224 THEN 160 ELSE 128)..(IF b[0] = 237 THEN 159 ELSE 191)
               /\ b[2] \in 128..191
         THEN [rune |-> (b[0] - 224) * 4096 + (b[1] - 128) * 64 + (b[2] - 128), size |-> 3]
       ELSE IF /\ b[0] \in 240..244
               /\ b[1] \in (IF b[0] = 240 THEN 144 ELSE 128)..(IF b[0] = 244 THEN 143 ELSE 191)
               /\ b[2] \in 128..191 /\ b[3] \in 128..191
         THEN [rune |-> (b[0] - 240) * 262144 + (b[1] - 128) * 4096 + (b[2] - 128) * 64
                        + (b[3] - 128),
               size |-> 4]
       ELSE [rune |-> 65533, size |-> 1] :
       b \in {[k \in 0..3 |-> IF i + k < Len(s) THEN ByteOf[s[i + k + 1]] ELSE 0]}})
\* The loop "for i, r := range s": for every offset i of s, whether the loop
\* visits it (start) and the code point and the size DecodeRune reads there.
\* The loop visits every offset but those inside a code point of several
\* bytes, which begins at most three bytes before.
Runes(s) ==
  The({[i \in 0 .. Len(s) - 1 |->
          [rune |-> d[i].rune, size |-> d[i].size,
           start |-> \A j \in MaxOf({0, i - 3}) .. i - 1 : d[j].size <= i - j]] :
       d \in {[i \in 0 .. Len(s) - 1 |-> DecodeRune(s, i)]}})
\* The texts parts[lo], ..., parts[hi], one after the other.
RECURSIVE Concat(_, _, _)
Concat(parts, lo, hi) ==
  IF lo > hi THEN <<>>
  ELSE IF lo = hi THEN parts[lo]
  ELSE Concat(parts, lo, (lo + hi) \div 2) \o Concat(parts, ((lo + hi) \div 2) + 1, hi)
\* unicode.IsSpace.
IsSpace(r) ==
  \/ r \in 9..13 \/ r = 32 \/ r = 133 \/ r = 160 \/ r = 5760
  \/ r \in 8192..8202 \/ r = 8232 \/ r = 8233 \/ r = 8239 \/ r = 8287 \/ r = 12288
\* unicode.CaseRanges without the title case: the code points lo..hi, what
\* is added to one of them for its upper case and for its lower case; 1114112
\* (unicode.UpperLower) marks a run in which upper and lower case alternate.
CaseRanges ==
  << <<65, 90, 0, 32>>, <<97, 122, 0 - 32, 0>>, <<181, 181, 743, 0>>, <<192, 214, 0, 32>>,
     <<216, 222, 0, 32>>, <<224, 246, 0 - 32, 0>>, <<248, 254, 0 - 32, 0>>, <<255, 255, 121, 0>>,
     <<256, 303, 1114112, 1114112>>, <<304, 304, 0, 0 - 199>>, <<305, 305, 0 - 232, 0>>, <<306, 311, 1114112, 1114112>>,
     <<313, 328, 1114112, 1114112>>, <<330, 375, 1114112, 1114112>>, <<376, 376, 0, 0 - 121>>, <<377, 382, 1114112, 1114112>>,
     <<383, 383, 0 - 300, 0>>, <<384, 384, 195, 0>>, <<385, 385, 0, 210>>, <<386, 389, 1114112, 1114112>>,
     <<390, 390, 0, 206>>, <<391, 391, 0, 1>>, <<392, 392, 0 - 1, 0>>, <<393, 394, 0, 205>>,
     <<395, 395, 0, 1>>, <<396, 396, 0 - 1, 0>>, <<398, 398, 0, 79>>, <<399, 399, 0, 202>>,
     <<400, 400, 0, 203>>, <<401, 401, 0, 1>>, <<402, 402, 0 - 1, 0>>, <<403, 403, 0, 205>>,
     <<404, 404, 0, 207>>, <<405, 405, 97, 0>>, <<406, 406, 0, 211>>, <<407, 407, 0, 209>>,
     <<408, 408, 0, 1>>, <<409, 409, 0 - 1, 0>>, <<410, 410, 163, 0>>, <<412, 412, 0, 211>>,
     <<413, 413, 0, 213>>, <<414, 414, 130, 0>>, <<415, 415, 0, 214>>, <<416, 421, 1114112, 1114112>>,
     <<422, 422, 0, 218>>, <<423, 423, 0, 1>>, <<424, 424, 0 - 1, 0>>, <<425, 425, 0, 218>>,
     <<428, 428, 0, 1>>, <<429, 429, 0 - 1, 0>>, <<430, 430, 0, 218>>, <<431, 431, 0, 1>>,
     <<432, 432, 0 - 1, 0>>, <<433, 434, 0, 217>>, <<435, 438, 1114112, 1114112>>, <<439, 439, 0, 219>>,
     <<440, 440, 0, 1>>, <<441, 441, 0 - 1, 0>>, <<444, 444, 0, 1>>, <<445, 445, 0 - 1, 0>>,
     <<447, 447, 56, 0>>, <<452, 452, 0, 2>>, <<453, 453, 0 - 1, 1>>, <<454, 454, 0 - 2, 0>>,
     <<455, 455, 0, 2>>, <<456, 456, 0 - 1, 1>>, <<457, 457, 0 - 2, 0>>, <<458, 458, 0, 2>>,
     <<459, 459, 0 - 1, 1>>, <<460, 460, 0 - 2, 0>>, <<461, 476, 1114112, 1114112>>, <<477, 477, 0 - 79, 0>>,
     <<478, 495, 1114112, 1114112>>, <<497, 497, 0, 2>>, <<498, 498, 0 - 1, 1>>, <<499, 499, 0 - 2, 0>>,
     <<500, 500, 0, 1>>, <<501, 501, 0 - 1, 0>>, <<502, 502, 0, 0 - 97>>, <<503, 503, 0, 0 - 56>>,
     <<504, 543, 1114112, 1114112>>, <<544, 544, 0, 0 - 130>>, <<546, 563, 1114112, 1114112>>, <<570, 570, 0, 10795>>,
     <<571, 571, 0, 1>>, <<572, 572, 0 - 1, 0>>, <<573, 573, 0, 0 - 163>>, <<574, 574, 0, 10792>>,
     <<575, 576, 10815, 0>>, <<577, 577, 0, 1>>, <<578, 578, 0 - 1, 0>>, <<579, 579, 0, 0 - 195>>,
     <<580, 580, 0, 69>>, <<581, 581, 0, 71>>, <<582, 591, 1114112, 1114112>>, <<592, 592, 10783, 0>>,
     <<593, 593, 10780, 0>>, <<594, 594, 10782, 0>>, <<595, 595, 0 - 210, 0>>, <<596, 596, 0 - 206, 0>>,
     <<598, 599, 0 - 205, 0>>, <<601, 601, 0 - 202, 0>>, <<603, 603, 0 - 203, 0>>, <<604, 604, 42319, 0>>,
     <<608, 608, 0 - 205, 0>>, <<609, 609, 42315, 0>>, <<611, 611, 0 - 207, 0>>, <<613, 613, 42280, 0>>,
     <<614, 614, 42308, 0>>, <<616, 616, 0 - 209, 0>>, <<617, 617, 0 - 211, 0>>, <<618, 618, 42308, 0>>,
     <<619, 619, 10743, 0>>, <<620, 620, 42305, 0>>, <<623, 623, 0 - 211, 0>>, <<625, 625, 10749, 0>>,
     <<626, 626, 0 - 213, 0>>, <<629, 629, 0 - 214, 0>>, <<637, 637, 10727, 0>>, <<640, 640, 0 - 218, 0>>,
     <<642, 642, 42307, 0>>, <<643, 643, 0 - 218, 0>>, <<647, 647, 42282, 0>>, <<648, 648, 0 - 218, 0>>,
     <<649, 649, 0 - 69, 0>>, <<650, 651, 0 - 217, 0>>, <<652, 652, 0 - 71, 0>>, <<658, 658, 0 - 219, 0>>,
     <<669, 669, 42261, 0>>, <<670, 670, 42258, 0>>, <<837, 837, 84, 0>>, <<880, 883, 1114112, 1114112>>,
     <<886, 886, 0, 1>>, <<887, 887, 0 - 1, 0>>, <<891, 893, 130, 0>>, <<895, 895, 0, 116>>,
     <<902, 902, 0, 38>>, <<904, 906, 0, 37>>, <<908, 908, 0, 64>>, <<910, 911, 0, 63>>,
     <<913, 929, 0, 32>>, <<931, 939, 0, 32>>, <<940, 940, 0 - 38, 0>>, <<941, 943, 0 - 37, 0>>,
     <<945, 961, 0 - 32, 0>>, <<962, 962, 0 - 31, 0>>, <<963, 971, 0 - 32, 0>>, <<972, 972, 0 - 64, 0>>,
     <<973, 974, 0 - 63, 0>>, <<975, 975, 0, 8>>, <<976, 976, 0 - 62, 0>>, <<977, 977, 0 - 57, 0>>,
     <<981, 981, 0 - 47, 0>>, <<982, 982, 0 - 54, 0>>, <<983, 983, 0 - 8, 0>>, <<984, 1007, 1114112, 1114112>>,
     <<1008, 1008, 0 - 86, 0>>, <<1009, 1009, 0 - 80, 0>>, <<1010, 1010, 7, 0>>, <<1011, 1011, 0 - 116, 0>>,
     <<1012, 1012, 0, 0 - 60>>, <<1013, 1013, 0 - 96, 0>>, <<1015, 1015, 0, 1>>, <<1016, 1016, 0 - 1, 0>>,
     <<1017, 1017, 0, 0 - 7>>, <<1018, 1018, 0, 1>>, <<1019, 1019, 0 - 1, 0>>, <<1021, 1023, 0, 0 - 130>>,
     <<1024, 1039, 0, 80>>, <<1040, 1071, 0, 32>>, <<1072, 1103, 0 - 32, 0>>, <<1104, 1119, 0 - 80, 0>>,
     <<1120, 1153, 1114112, 1114112>>, <<1162, 1215, 1114112, 1114112>>, <<1216, 1216, 0, 15>>, <<1217, 1230, 1114112, 1114112>>,
     <<1231, 1231, 0 - 15, 0>>, <<1232, 1327, 1114112, 1114112>>, <<1329, 1366, 0, 48>>, <<1377, 1414, 0 - 48, 0>>,
     <<4256, 4293, 0, 7264>>, <<4295, 4295, 0, 7264>>, <<4301, 4301, 0, 7264>>, <<4304, 4346, 3008, 0>>,
     <<4349, 4351, 3008, 0>>, <<5024, 5103, 0, 38864>>, <<5104, 5109, 0, 8>>, <<5112, 5117, 0 - 8, 0>>,
     <<7296, 7296, 0 - 6254, 0>>, <<7297, 7297, 0 - 6253, 0>>, <<7298, 7298, 0 - 6244, 0>>, <<7299, 7300, 0 - 6242, 0>>,
     <<7301, 7301, 0 - 6243, 0>>, <<7302, 7302, 0 - 6236, 0>>, <<7303, 7303, 0 - 6181, 0>>, <<7304, 7304, 35266, 0>>,
     <<7312, 7354, 0, 0 - 3008>>, <<7357, 7359, 0, 0 - 3008>>, <<7545, 7545, 35332, 0>>, <<7549, 7549, 3814, 0>>,
     <<7566, 7566, 35384, 0>>, <<7680, 7829, 1114112, 1114112>>, <<7835, 7835, 0 - 59, 0>>, <<7838, 7838, 0, 0 - 7615>>,
     <<7840, 7935, 1114112, 1114112>>, <<7936, 7943, 8, 0>>, <<7944, 7951, 0, 0 - 8>>, <<7952, 7957, 8, 0>>,
     <<7960, 7965, 0, 0 - 8>>, <<7968, 7975, 8, 0>>, <<7976, 7983, 0, 0 - 8>>, <<7984, 7991, 8, 0>>,
     <<7992, 7999, 0, 0 - 8>>, <<8000, 8005, 8, 0>>, <<8008, 8013, 0, 0 - 8>>, <<8017, 8017, 8, 0>>,
     <<8019, 8019, 8, 0>>, <<8021, 8021, 8, 0>>, <<8023, 8023, 8, 0>>, <<8025, 8025, 0, 0 - 8>>,
     <<8027, 8027, 0, 0 - 8>>, <<8029, 8029, 0, 0 - 8>>, <<8031, 8031, 0, 0 - 8>>, <<8032, 8039, 8, 0>>,
     <<8040, 8047, 0, 0 - 8>>, <<8048, 8049, 74, 0>>, <<8050, 8053, 86, 0>>, <<8054, 8055, 100, 0>>,
     <<8056, 8057, 128, 0>>, <<8058, 8059, 112, 0>>, <<8060, 8061, 126, 0>>, <<8064, 8071, 8, 0>>,
     <<8072, 8079, 0, 0 - 8>>, <<8080, 8087, 8, 0>>, <<8088, 8095, 0, 0 - 8>>, <<8096, 8103, 8, 0>>,
     <<8104, 8111, 0, 0 - 8>>, <<8112, 8113, 8, 0>>, <<8115, 8115, 9, 0>>, <<8120, 8121, 0, 0 - 8>>,
     <<8122, 8123, 0, 0 - 74>>, <<8124, 8124, 0, 0 - 9>>, <<8126, 8126, 0 - 7205, 0>>, <<8131, 8131, 9, 0>>,
     <<8136, 8139, 0, 0 - 86>>, <<8140, 8140, 0, 0 - 9>>, <<8144, 8145, 8, 0>>, <<8152, 8153, 0, 0 - 8>>,
     <<8154, 8155, 0, 0 - 100>>, <<8160, 8161, 8, 0>>, <<8165, 8165, 7, 0>>, <<8168, 8169, 0, 0 - 8>>,
     <<8170, 8171, 0, 0 - 112>>, <<8172, 8172, 0, 0 - 7>>, <<8179, 8179, 9, 0>>, <<8184, 8185, 0, 0 - 128>>,
     <<8186, 8187, 0, 0 - 126>>, <<8188, 8188, 0, 0 - 9>>, <<8486, 8486, 0, 0 - 7517>>, <<8490, 8490, 0, 0 - 8383>>,
     <<8491, 8491, 0, 0 - 8262>>, <<8498, 8498, 0, 28>>, <<8526, 8526, 0 - 28, 0>>, <<8544, 8559, 0, 16>>,
     <<8560, 8575, 0 - 16, 0>>, <<8579, 8579, 0, 1>>, <<8580, 8580, 0 - 1, 0>>, <<9398, 9423, 0, 26>>,
     <<9424, 9449, 0 - 26, 0>>, <<11264, 11311, 0, 48>>, <<11312, 11359, 0 - 48, 0>>, <<11360, 11360, 0, 1>>,
     <<11361, 11361, 0 - 1, 0>>, <<11362, 11362, 0, 0 - 10743>>, <<11363, 11363, 0, 0 - 3814>>, <<11364, 11364, 0, 0 - 10727>>,
     <<11365, 11365, 0 - 10795, 0>>, <<11366, 11366, 0 - 10792, 0>>, <<11367, 11372, 1114112, 1114112>>, <<11373, 11373, 0, 0 - 10780>>,
     <<11374, 11374, 0, 0 - 10749>>, <<11375, 11375, 0, 0 - 10783>>, <<11376, 11376, 0, 0 - 10782>>, <<11378, 11378, 0, 1>>,
     <<11379, 11379, 0 - 1, 0>>, <<11381, 11381, 0, 1>>, <<11382, 11382, 0 - 1, 0>>, <<11390, 11391, 0, 0 - 10815>>,
     <<11392, 11491, 1114112, 1114112>>, <<11499, 11502, 1114112, 1114112>>, <<11506, 11506, 0, 1>>, <<11507, 11507, 0 - 1, 0>>,
     <<11520, 11557, 0 - 7264, 0>>, <<11559, 11559, 0 - 7264, 0>>, <<11565, 11565, 0 - 7264, 0>>, <<42560, 42605, 1114112, 1114112>>,
     <<42624, 42651, 1114112, 1114112>>, <<42786, 42799, 1114112, 1114112>>, <<42802, 42863, 1114112, 1114112>>, <<42873, 42876, 1114112, 1114112>>,
     <<42877, 42877, 0, 0 - 35332>>, <<42878, 42887, 1114112, 1114112>>, <<42891, 42891, 0, 1>>, <<42892, 42892, 0 - 1, 0>>,
     <<42893, 42893, 0, 0 - 42280>>, <<42896, 42899, 1114112, 1114112>>, <<42900, 42900, 48, 0>>, <<42902, 42921, 1114112, 1114112>>,
     <<42922, 42922, 0, 0 - 42308>>, <<42923, 42923, 0, 0 - 42319>>, <<42924, 42924, 0, 0 - 42315>>, <<42925, 42925, 0, 0 - 42305>>,
     <<42926, 42926, 0, 0 - 42308>>, <<42928, 42928, 0, 0 - 42258>>, <<42929, 42929, 0, 0 - 42282>>, <<42930, 42930, 0, 0 - 42261>>,
     <<42931, 42931, 0, 928>>, <<42932, 42947, 1114112, 1114112>>, <<42948, 42948, 0, 0 - 48>>, <<42949, 42949, 0, 0 - 42307>>,
     <<42950, 42950, 0, 0 - 35384>>, <<42951, 42954, 1114112, 1114112>>, <<42960, 42960, 0, 1>>, <<42961, 42961, 0 - 1, 0>>,
     <<42966, 42969, 1114112, 1114112>>, <<42997, 42997, 0, 1>>, <<42998, 42998, 0 - 1, 0>>, <<43859, 43859, 0 - 928, 0>>,
     <<43888, 43967, 0 - 38864, 0>>, <<65313, 65338, 0, 32>>, <<65345, 65370, 0 - 32, 0>>, <<66560, 66599, 0, 40>>,
     <<66600, 66639, 0 - 40, 0>>, <<66736, 66771, 0, 40>>, <<66776, 66811, 0 - 40, 0>>, <<66928, 66938, 0, 39>>,
     <<66940, 66954, 0, 39>>, <<66956, 66962, 0, 39>>, <<66964, 66965, 0, 39>>, <<66967, 66977, 0 - 39, 0>>,
     <<66979, 66993, 0 - 39, 0>>, <<66995, 67001, 0 - 39, 0>>, <<67003, 67004, 0 - 39, 0>>, <<68736, 68786, 0, 64>>,
     <<68800, 68850, 0 - 64, 0>>, <<71840, 71871, 0, 32>>, <<71872, 71903, 0 - 32, 0>>, <<93760, 93791, 0, 32>>,
     <<93792, 93823, 0 - 32, 0>>, <<125184, 125217, 0, 34>>, <<125218, 125251, 0 - 34, 0>> >>
\* strings.Map(unicode.ToUpper, s) for case = 0 and strings.Map(unicode.ToLower,
\* s) for case = 1: every code point of s mapped (unicode.To) and encoded, a
\* byte that is no UTF-8 replaced by U+FFFD.
Map(case, s) ==
  LET \* unicode.To: the code point r mapped by the first of the ranges that
      \* holds it
      To(ranges, r) ==
        The({IF hit = {} THEN r
             ELSE The({IF range[case + 3] = 1114112
                         THEN range[1] + (2 * ((r - range[1]) \div 2)) + case
                       ELSE r + range[case + 3] :
                       range \in {ranges[MinOf(hit)]}}) :
             hit \in {{k \in DOMAIN ranges : ranges[k][1] <= r /\ r <= ranges[k][2]}}})
  IN  The({Concat([k \in 1..Len(s) |->
                     IF rs[k - 1].start
                       THEN The({EncodeRune(to) : to \in {To(ranges, rs[k - 1].rune)}})
                     ELSE <<>>],
                  1, Len(s)) :
           rs \in {Runes(s)}, ranges \in {CaseRanges}})
\* strings.ToUpper and strings.ToLower: the ASCII mapping when every byte is
\* ASCII, the Unicode mapping otherwise.
ToUpper(s) ==
  IF \A i \in 1..Len(s) : ByteOf[s[i]] < 128 THEN [i \in 1..Len(s) |-> ToUpperChar(s[i])]
  ELSE Map(0, s)
ToLower(s) ==
  IF \A i \in 1..Len(s) : ByteOf[s[i]] < 128 THEN [i \in 1..Len(s) |-> ToLowerChar(s[i])]
  ELSE Map(1, s)
\* strings.TrimSpace: s without the code points at its start and at its end
\* that are white space (unicode.IsSpace), that is, from the first to the
\* last byte that lies in no such code point.  An ASCII byte is a code point
\* of its own; another byte lies in the code point that begins at most two
\* bytes before it (no white space has four bytes).  (A byte that is no
\* UTF-8 is read as U+FFFD, from the start by utf8.DecodeRuneInString and
\* from the end by utf8.DecodeLastRuneInString, and is no space.)
TrimSpace(s) ==
  LET space(j) == The({IF IsSpace(d.rune) THEN d.size ELSE 0 : d \in {DecodeRune(s, j)}})
      inSpace(i) ==
        IF ByteOf[s[i + 1]] < 128 THEN IsSpace(ByteOf[s[i + 1]])
        ELSE \E j \in MaxOf({0, i - 2}) .. i : j + space(j) > i
      trim(keep) == IF keep = {} THEN <<>> ELSE Slice(s, MinOf(keep), MaxOf(keep) + 1)
  IN  trim({i \in 0 .. Len(s) - 1 : ~inSpace(i)})
\* strings.Split with a non-empty separator.
RECURSIVE Split(_, _)
Split(s, sep) ==
  LET split(text, i) ==
        IF i < 0 THEN <<text>>
        ELSE <<Slice(text, 0, i)>> \o Split(Slice(text, i + Len(sep), Len(text)), sep)
  IN  The({The({split(text, i) : i \in {Index(text, sep)}}) : text \in {s}})
\* strconv.Itoa / the %d verb, for n >= 0.
RECURSIVE Itoa(_)
Itoa(n) ==
  IF n < 10 THEN <<DigitChars[n + 1]>>
  ELSE Itoa(n \div 10) \o <<DigitChars[(n % 10) + 1]>>
\* strconv.Atoi on a run of decimal digits: the value, or a range error
\* when it does not fit the int.
RECURSIVE AtoiAcc(_, _, _)
AtoiAcc(ds, k, acc) ==
  IF k > Len(ds) \/ acc > MaxInt THEN acc
  ELSE AtoiAcc(ds, k + 1, acc * 10 + DigitValue(ds[k]))
Atoi(ds) ==
  The({IF v > MaxInt THEN [err |-> TRUE, val |-> 0] ELSE [err |-> FALSE, val |-> v] :
       v \in {AtoiAcc(ds, 1, 0)}})

(***************************************************************************)
(* The QSO record (main.go) and the ADIF tag tables (parser).              *)
(***************************************************************************)
QSOFields ==
  {"CALL", "MODE", "QSO_DATE_OFF", "QSO_DATE", "TIME_OFF", "TIME_ON",
   "RST_RCVD", "RST_SENT", "FREQ", "FREQ_RX", "OPERATOR", "COMMENT",
   "POWER", "STX", "SRX", "STX_STRING", "SRX_STRING", "RTX",
   "MYCALL", "GRIDSQUARE", "MY_GRIDSQUARE", "STATION_CALLSIGN", "BAND", "NAME",
   "QTH", "STATE", "COUNTRY", "CQZ", "ITUZ", "CONT",
   "IOTA", "DXCC", "PROP_MODE", "SAT_NAME", "SAT_MODE", "CONTEST_ID",
   "PREFIX", "SUBMODE", "QSLMSG", "NOTES", "EMAIL", "DARC_DOK",
   "SOTA_REF", "WWFF_REF", "POTA_REF", "CNTY", "REGION", "LAT",
   "LON", "ANT_AZ", "ANT_EL", "ANT_PATH", "A_INDEX", "K_INDEX",
   "SFI", "RX_PWR"}

TagName ==
  "ANT_AZ" :> <<"A","N","T","_","A","Z">> @@
  "ANT_EL" :> <<"A","N","T","_","E","L">> @@
  "ANT_PATH" :> <<"A","N","T","_","P","A","T","H">> @@
  "A_INDEX" :> <<"A","_","I","N","D","E","X">> @@
  "BAND" :> <<"B","A","N","D">> @@
  "CALL" :> <<"C","A","L","L">> @@
  "CNTY" :> <<"C","N","T","Y">> @@
  "COMMENT" :> <<"C","O","M","M","E","N","T">> @@
  "CONT" :> <<"C","O","N","T">> @@
  "CONTEST_ID" :> <<"C","O","N","T","E","S","T","_","I","D">> @@
  "COUNTRY" :> <<"C","O","U","N","T","R","Y">> @@
  "CQZ" :> <<"C","Q","Z">> @@
  "DARC_DOK" :> <<"D","A","R","C","_","D","O","K">> @@
  "DXCC" :> <<"D","X","C","C">> @@
  "EMAIL" :> <<"E","M","A","I","L">> @@
  "FREQ" :> <<"F","R","E","Q">> @@
  "FREQ_RX" :> <<"F","R","E","Q","_","R","X">> @@
  "GRIDSQUARE" :> <<"G","R","I","D","S","Q","U","A","R","E">> @@
  "IOTA" :> <<"I","O","T","A">> @@
  "ITUZ" :> <<"I","T","U","Z">> @@
  "K_INDEX" :> <<"K","_","I","N","D","E","X">> @@
  "LAT" :> <<"L","A","T">> @@
  "LON" :> <<"L","O","N">> @@
  "MODE" :> <<"M","O","D","E">> @@
  "MY_CALL" :> <<"M","Y","_","C","A","L","L">> @@
  "MY_GRIDSQUARE" :> <<"M","Y","_","G","R","I","D","S","Q","U","A","R","E">> @@
  "NAME" :> <<"N","A","M","E">> @@
  "NOTES" :> <<"N","O","T","E","S">> @@
  "OPERATOR" :> <<"O","P","E","R","A","T","O","R">> @@
  "POTA_REF" :> <<"P","O","T","A","_","R","E","F">> @@
  "PREFIX" :> <<"P","R","E","F","I","X">> @@
  "PROP_MODE" :> <<"P","R","O","P","_","M","O","D","E">> @@
  "QSLMSG" :> <<"Q","S","L","M","S","G">> @@
  "QSO_DATE" :> <<"Q","S","O","_","D","A","T","E">> @@
  "QSO_DATE_OFF" :> <<"Q","S","O","_","D","A","T","E","_","O","F","F">> @@
  "QTH" :> <<"Q","T","H">> @@
  "REGION" :> <<"R","E","G","I","O","N">> @@
  "RST_RCVD" :> <<"R","S","T","_","R","C","V","D">> @@
  "RST_SENT" :> <<"R","S","T","_","S","E","N","T">> @@
  "RTX" :> <<"R","T","X">> @@
  "RX_PWR" :> <<"R","X","_","P","W","R">> @@
  "SAT_MODE" :> <<"S","A","T","_","M","O","D","E">> @@
  "SAT_NAME" :> <<"S","A","T","_","N","A","M","E">> @@
  "SFI" :> <<"S","F","I">> @@
  "SOTA_REF" :> <<"S","O","T","A","_","R","E","F">> @@
  "SRX" :> <<"S","R","X">> @@
  "SRX_STRING" :> <<"S","R","X","_","S","T","R","I","N","G">> @@
  "STATE" :> <<"S","T","A","T","E">> @@
  "STATION_CALLSIGN" :> <<"S","T","A","T","I","O","N","_","C","A","L","L","S","I","G","N">> @@
  "STX" :> <<"S","T","X">> @@
  "STX_STRING" :> <<"S","T","X","_","S","T","R","I","N","G">> @@
  "SUBMODE" :> <<"S","U","B","M","O","D","E">> @@
  "TIME_OFF" :> <<"T","I","M","E","_","O","F","F">> @@
  "TIME_ON" :> <<"T","I","M","E","_","O","N">> @@
  "TX_PWR" :> <<"T","X","_","P","W","R">> @@
  "WWFF_REF" :> <<"W","W","F","F","_","R","E","F">>

ParseSwitch ==
  "CALL" :> <<"CALL">> @@
  "MODE" :> <<"MODE">> @@
  "QSO_DATE_OFF" :> <<"QSO_DATE_OFF", "QSO_DATE">> @@
  "QSO_DATE" :> <<"QSO_DATE">> @@
  "TIME_OFF" :> <<"TIME_OFF", "TIME_ON">> @@
  "TIME_ON" :> <<"TIME_ON">> @@
  "RST_RCVD" :> <<"RST_RCVD">> @@
  "RST_SENT" :> <<"RST_SENT">> @@
  "FREQ" :> <<"FREQ">> @@
  "FREQ_RX" :> <<"FREQ_RX">> @@
  "OPERATOR" :> <<"OPERATOR">> @@
  "COMMENT" :> <<"COMMENT">> @@
  "TX_PWR" :> <<"POWER">> @@
  "STX" :> <<"STX">> @@
  "SRX" :> <<"SRX">> @@
  "STX_STRING" :> <<"STX_STRING">> @@
  "SRX_STRING" :> <<"SRX_STRING">> @@
  "RTX" :> <<"RTX">> @@
  "CONTEST_ID" :> <<"CONTEST_ID">> @@
  "PREFIX" :> <<"PREFIX">> @@
  "SUBMODE" :> <<"SUBMODE">> @@
  "QSLMSG" :> <<"QSLMSG">> @@
  "NOTES" :> <<"NOTES">> @@
  "EMAIL" :> <<"EMAIL">> @@
  "DARC_DOK" :> <<"DARC_DOK">> @@
  "SOTA_REF" :> <<"SOTA_REF">> @@
  "WWFF_REF" :> <<"WWFF_REF">> @@
  "POTA_REF" :> <<"POTA_REF">> @@
  "CNTY" :> <<"CNTY">> @@
  "REGION" :> <<"REGION">> @@
  "LAT" :> <<"LAT">> @@
  "LON" :> <<"LON">> @@
  "ANT_AZ" :> <<"ANT_AZ">> @@
  "ANT_EL" :> <<"ANT_EL">> @@
  "ANT_PATH" :> <<"ANT_PATH">> @@
  "A_INDEX" :> <<"A_INDEX">> @@
  "K_INDEX" :> <<"K_INDEX">> @@
  "SFI" :> <<"SFI">> @@
  "RX_PWR" :> <<"RX_PWR">> @@
  "MY_CALL" :> <<"MYCALL", "STATION_CALLSIGN">> @@
  "MY_GRIDSQUARE" :> <<"MY_GRIDSQUARE">> @@
  "NAME" :> <<"NAME">> @@
  "QTH" :> <<"QTH">> @@
  "STATE" :> <<"STATE">> @@
  "COUNTRY" :> <<"COUNTRY">> @@
  "CQZ" :> <<"CQZ">> @@
  "ITUZ" :> <<"ITUZ">> @@
  "CONT" :> <<"CONT">> @@
  "IOTA" :> <<"IOTA">> @@
  "DXCC" :> <<"DXCC">> @@
  "PROP_MODE" :> <<"PROP_MODE">> @@
  "SAT_NAME" :> <<"SAT_NAME">> @@
  "SAT_MODE" :> <<"SAT_MODE">> @@
  "GRIDSQUARE" :> <<"GRIDSQUARE">> @@
  "STATION_CALLSIGN" :> <<"STATION_CALLSIGN">>

GenOrder ==
  <<<<"CALL", "CALL">>, <<"QSO_DATE", "QSO_DATE">>, <<"TIME_ON", "TIME_ON">>,
    <<"MODE", "MODE">>, <<"RST_RCVD", "RST_RCVD">>, <<"RST_SENT", "RST_SENT">>,
    <<"FREQ", "FREQ">>, <<"FREQ_RX", "FREQ_RX">>, <<"BAND", "BAND">>,
    <<"POWER", "TX_PWR">>, <<"OPERATOR", "OPERATOR">>, <<"MYCALL", "MY_CALL">>,
    <<"STATION_CALLSIGN", "STATION_CALLSIGN">>, <<"GRIDSQUARE", "GRIDSQUARE">>, <<"COMMENT", "COMMENT">>,
    <<"STX", "STX">>, <<"SRX", "SRX">>, <<"STX_STRING", "STX_STRING">>,
    <<"SRX_STRING", "SRX_STRING">>, <<"RTX", "RTX">>, <<"CONTEST_ID", "CONTEST_ID">>,
    <<"PREFIX", "PREFIX">>, <<"MY_GRIDSQUARE", "MY_GRIDSQUARE">>, <<"NAME", "NAME">>,
    <<"QTH", "QTH">>, <<"STATE", "STATE">>, <<"COUNTRY", "COUNTRY">>,
    <<"CQZ", "CQZ">>, <<"ITUZ", "ITUZ">>, <<"CONT", "CONT">>,
    <<"IOTA", "IOTA">>, <<"DXCC", "DXCC">>, <<"PROP_MODE", "PROP_MODE">>,
    <<"SAT_NAME", "SAT_NAME">>, <<"SAT_MODE", "SAT_MODE">>, <<"SUBMODE", "SUBMODE">>,
    <<"QSLMSG", "QSLMSG">>, <<"NOTES", "NOTES">>, <<"EMAIL", "EMAIL">>,
    <<"DARC_DOK", "DARC_DOK">>, <<"SOTA_REF", "SOTA_REF">>, <<"WWFF_REF", "WWFF_REF">>,
    <<"POTA_REF", "POTA_REF">>, <<"CNTY", "CNTY">>, <<"REGION", "REGION">>,
    <<"LAT", "LAT">>, <<"LON", "LON">>, <<"ANT_AZ", "ANT_AZ">>,
    <<"ANT_EL", "ANT_EL">>, <<"ANT_PATH", "ANT_PATH">>, <<"A_INDEX", "A_INDEX">>,
    <<"K_INDEX", "K_INDEX">>, <<"SFI", "SFI">>, <<"RX_PWR", "RX_PWR">>>>

Tags == DOMAIN TagName
EmptyQSO == [f \in QSOFields |-> <<>>]

(***************************************************************************)
(* parseADIFMessage.                                                       *)
(***************************************************************************)
\* End offset of the maximal run of characters of class cls starting at
\* offset i of s.
RunEnd(s, i, cls) ==
  CHOOSE j \in i..Len(s) :
    /\ \A k \in (i + 1)..j : s[k] \in cls
    /\ (j = Len(s) \/ s[j + 1] \notin cls)
\* The regular expression <([a-zA-Z_]+):(\d+)> anchored at offset i: the end
\* offset of the match, or -1.
MatchTagAt(s, i) ==
  LET digits(j) ==
        The({IF k = j + 1 \/ k >= Len(s) \/ s[k + 1] # ">" THEN 0 - 1 ELSE k + 1 :
             k \in {RunEnd(s, j + 1, DigitSet)}})
      name(j) == IF j = i + 1 \/ j >= Len(s) \/ s[j + 1] # ":" THEN 0 - 1 ELSE digits(j)
  IN  IF i >= Len(s) \/ s[i + 1] # "<" THEN 0 - 1
      ELSE The({name(j) : j \in {RunEnd(s, i + 1, NameClass)}})
\* The submatches of a match from offset i to offset e: the whole match, the
\* name and the length digits.
Submatches(s, i, e) ==
  The({<<Slice(s, i, e), Slice(s, i + 1, i + c), Slice(s, i + c + 1, e - 1)>> :
       c \in {Index(Slice(s, i, e), <<":">>)}})
\* re.FindAllStringSubmatch(message, -1): the leftmost non-overlapping
\* matches, in order.  hits are the offsets where the expression matches,
\* each with the end of its match; the scan resumes at that end.
RECURSIVE FindAllFrom(_, _, _)
FindAllFrom(s, hits, p) ==
  LET from(h) == <<Submatches(s, h[1], h[2])>> \o FindAllFrom(s, hits, h[2])
      scan(later) ==
        IF later = {} THEN <<>>
        ELSE The({from(h) : h \in {CHOOSE h \in later : \A g \in later : h[1] <= g[1]}})
  IN  The({scan(later) : later \in {{h \in hits : h[1] >= p}}})
FindAllStringSubmatch(s) ==
  The({FindAllFrom(s, hits, 0) :
       hits \in {{h \in {<<i, MatchTagAt(s, i)>> : i \in {j \in 0..(Len(s) - 1) : s[j + 1] = "<"}} :
                    h[2] >= 0}}})

\* One iteration of the loop over the matches, up to the slice expression:
\* where the tag's data starts and ends in the message.  kind is "skip" for
\* the two `continue` exits, "panic" when message[fieldStart:fieldEnd] is
\* evaluated with fieldEnd < fieldStart (the addition wrapped around), and
\* "data" otherwise.
ClampEnd(sum, length) == IF sum > length THEN length ELSE sum
FieldBounds(message, match) ==
  LET bounds(fieldStart, a) ==
        The({IF fieldStart >= Len(message) \/ a.err
               THEN [kind |-> "skip", fieldStart |-> fieldStart, fieldEnd |-> fieldStart]
             ELSE IF fieldEnd < fieldStart
               THEN [kind |-> "panic", fieldStart |-> fieldStart, fieldEnd |-> fieldEnd]
             ELSE [kind |-> "data", fieldStart |-> fieldStart, fieldEnd |-> fieldEnd] :
           fieldEnd \in {ClampEnd(WrapInt(fieldStart + a.val), Len(message))}})
  IN  The({bounds(fieldStart, a) :
           fieldStart \in {Index(message, match[1]) + Len(match[1])}, a \in {Atoi(match[3])}})
FieldData(message, b) == TrimSpace(Slice(message, b.fieldStart, b.fieldEnd))
\* The switch on strings.ToUpper(field): the QSO with data stored in every
\* field the tag's case assigns; an unrecognised tag changes nothing.
AssignField(qso, field, data) ==
  LET assign(hit, value) ==
        IF hit = {} THEN qso
        ELSE [f \in QSOFields |->
                IF \E t \in hit : \E k \in DOMAIN ParseSwitch[t] : ParseSwitch[t][k] = f
                  THEN value ELSE qso[f]]
  IN  The({assign(hit, value) :
           hit \in {The({{t \in DOMAIN ParseSwitch : TagName[t] = up} : up \in {ToUpper(field)}})},
           value \in {data}})
RECURSIVE ParseLoop(_, _, _, _)
ParseLoop(message, matches, k, qso) ==
  LET step(kv, q) ==
        IF kv > Len(matches) THEN [panic |-> FALSE, qso |-> q]
        ELSE The({IF b.kind = "panic" THEN [panic |-> TRUE, qso |-> q]
                  ELSE IF b.kind = "skip" THEN ParseLoop(message, matches, kv + 1, q)
                  ELSE ParseLoop(message, matches, kv + 1,
                                 AssignField(q, matches[kv][2], FieldData(message, b))) :
                b \in {FieldBounds(message, matches[kv])}})
  IN  The({step(kv, q) : kv \in {k}, q \in {qso}})
\* parseADIFMessage: status "ok" with the record, "error" with the empty
\* record, or "panic" when the goroutine dies in the slice expression.
ParseResult(r) ==
  IF r.panic THEN [status |-> "panic", qso |-> EmptyQSO]
  ELSE IF r.qso["CALL"] = <<>> THEN [status |-> "error", qso |-> EmptyQSO]
  ELSE [status |-> "ok", qso |-> r.qso]
parseADIFMessage(message) ==
  The({The({ParseResult(r) :
            r \in {The({ParseLoop(m, matches, 1, EmptyQSO) :
                        matches \in {FindAllStringSubmatch(m)}})}}) :
     m \in {message}})

(***************************************************************************)
(* generateADIF.                                                           *)
(***************************************************************************)
EOR == <<"<","E","O","R",">">>
AdifHeader ==
  <<"<","A","D","I","F","_","V","E","R",":","5",">","5",".","0",
    "<","E","O","H",">","\n">>
\* fmt.Sprintf("<NAME:%d>%s ", len(v), v)
FieldTag(tag, v) ==
  <<"<">> \o TagName[tag] \o <<":">> \o Itoa(Len(v)) \o <<">">> \o v \o <<" ">>
\* A variant that writes a tag for an empty field too; C16 tells the code
\* from it.
WriteFieldAlways(qso, k) == FieldTag(GenOrder[k][2], qso[GenOrder[k][1]])
\* if qso.F != "" { adif.WriteString(...) }, for the k-th field of the order.
WriteField(qso, k) ==
  IF qso[GenOrder[k][1]] # <<>> THEN FieldTag(GenOrder[k][2], qso[GenOrder[k][1]]) ELSE <<>>
\* The writes for the fields lo..hi of the order, concatenated in order.
RECURSIVE GenFields(_, _, _)
GenFields(qso, lo, hi) ==
  IF lo = hi THEN WriteField(qso, lo)
  ELSE GenFields(qso, lo, (lo + hi) \div 2) \o GenFields(qso, ((lo + hi) \div 2) + 1, hi)
generateADIF(qso) ==
  The({AdifHeader \o GenFields(q, 1, Len(GenOrder)) \o EOR \o <<"\n">> : q \in {qso}})

(***************************************************************************)
(* Decimal digits.                                                         *)
(***************************************************************************)
\* The number written by the digits of ds from the k-th on, after acc.
RECURSIVE DigitsValue(_, _, _)
DigitsValue(ds, k, acc) ==
  IF k > Len(ds) THEN acc ELSE DigitsValue(ds, k + 1, acc * 10 + DigitValue(ds[k]))
\* Zero-padded decimal rendering of n in w digits.
RECURSIVE PadDigits(_, _)
PadDigits(n, w) ==
  IF w = 0 THEN <<>> ELSE PadDigits(n \div 10, w - 1) \o <<DigitChars[(n % 10) + 1]>>

(***************************************************************************)
(* float64.  A natural number is a sequence of limbs, least significant    *)
(* first, without leading zero limbs.  A float64 is [nan, inf, neg, m, e]: *)
(* NaN, an infinity, or the finite value (-1)^neg * m * 2^e with m below   *)
(* 2^53 + 1 and e at least MinExponent.  Every operation computes the      *)
(* exact result and rounds it to the nearest float64, ties to even, as     *)
(* strconv and the hardware do.                                            *)
(***************************************************************************)
LimbBits == 7 * 2
Limb == 2 ^ LimbBits
MantissaBits == 50 + 3
MinExponent == 0 - (1000 + 74)
RECURSIVE NatOf(_)
NatOf(n) == IF n = 0 THEN <<>> ELSE <<n % Limb>> \o NatOf(n \div Limb)
Norm(a) == SubSeq(a, 1, MaxOf({0} \cup {k \in DOMAIN a : a[k] # 0}))
\* a * c + b, for c at most Limb.
MulAdd(a, c, b) ==
  The({LET limb(z, k) == IF k <= Len(z) THEN z[k] ELSE 0
           step(st, k) ==
             LET v == limb(x, k) * c + limb(y, k) + st.carry
             IN  [out |-> Append(st.out, v % Limb), carry |-> v \div Limb]
       IN  The({Norm(end.out \o NatOf(end.carry)) :
                end \in {Fold(step, [out |-> <<>>, carry |-> 0], 1, MaxOf({Len(x), Len(y)}))}}) :
     x \in {a}, y \in {b}})
\* a * 2^k
ShiftLeft(a, k) == MulAdd([j \in 1 .. k \div LimbBits |-> 0] \o a, 2 ^ (k % LimbBits), <<>>)
\* a * b, from the highest limb of b down.
Mul(a, b) == Fold(LAMBDA acc, k : MulAdd(a, b[Len(b) + 1 - k], <<0>> \o acc), <<>>, 1, Len(b))
\* Quotient and remainder of a by d, for d at most Limb, from the highest
\* limb of a down.
DivSmall(a, d) ==
  The({LET step(st, k) ==
             LET v == st.r * Limb + x[Len(x) + 1 - k]
             IN  [q |-> <<v \div d>> \o st.q, r |-> v % d]
       IN  The({[q |-> Norm(end.q), r |-> end.r] :
                end \in {Fold(step, [q |-> <<>>, r |-> 0], 1, Len(x))}}) :
     x \in {a}})
\* a * 10^n, four decimal places at a time.
MulPow10(a, n) ==
  Fold(LAMBDA acc, k : MulAdd(acc, IF 4 * k <= n THEN 10000 ELSE 10 ^ (n % 4), <<>>),
       a, 1, (n + 3) \div 4)
\* a / 10^n rounded down, and whether a remainder was lost (now or before).
DivPow10(a, n, lost) ==
  Fold(LAMBDA st, k :
         The({[q |-> v.q, lost |-> st.lost \/ v.r # 0] :
              v \in {DivSmall(st.q, IF 4 * k <= n THEN 10000 ELSE 10 ^ (n % 4))}}),
       [q |-> a, lost |-> lost], 1, (n + 3) \div 4)
BitLen(a) ==
  IF a = <<>> THEN 0
  ELSE (Len(a) - 1) * LimbBits
       + (CHOOSE b \in 1..LimbBits : 2 ^ (b - 1) <= a[Len(a)] /\ a[Len(a)] < 2 ^ b)
\* a / 2^k rounded down, and whether bits were lost.
ShiftRight(a, k) ==
  The({The({[q |-> v.q, lost |-> v.r # 0 \/ \E j \in 1..limbs : x[j] # 0] :
            v \in {DivSmall(SubSeq(x, limbs + 1, Len(x)), 2 ^ (k % LimbBits))}}) :
     x \in {a}, limbs \in {Min(k \div LimbBits, Len(a))}})
\* a / 2^s rounded to the nearest integer, ties to even; sticky says that
\* the number a stands for has further non-zero bits below a's last.
RoundShift(a, s, sticky) ==
  IF s = 0 THEN a
  ELSE The({The({IF /\ half.r = 1
                    /\ (x.lost \/ sticky \/ (half.q # <<>> /\ half.q[1] % 2 = 1))
                   THEN MulAdd(half.q, 1, <<1>>)
                 ELSE half.q :
               half \in {DivSmall(x.q, 2)}}) :
          x \in {ShiftRight(a, s - 1)}})
\* The number written by the digits ds in the given base (10 or 16).
NatFromDigits(ds, base) ==
  Fold(LAMBDA acc, k : MulAdd(acc, base, NatOf(DigitValue(ds[k]))), <<>>, 1, Len(ds))
\* The decimal digits of a, at least least of them.
NatToDigits(a, least) ==
  The({Slice(ds, MinOf({Len(ds) - least}
                       \cup {k \in 0 .. Len(ds) - 1 : ds[k + 1] # "0"}),
             Len(ds)) :
       ds \in {Fold(LAMBDA st, k :
                      The({[rest |-> v.q, ds |-> <<DigitChars[v.r + 1]>> \o st.ds] :
                           v \in {DivSmall(st.rest, 10)}}),
                    [rest |-> a, ds |-> <<>>], 1, MaxOf({least, (BitLen(a) * 4) \div 13 + 1})).ds}})

\* A float64 is not-a-number, an infinity or (-1)^neg * m * 2^e for a
\* mantissa m below 2^53 (or 2^53 itself).
F64Zero(neg) == [nan |-> FALSE, inf |-> FALSE, neg |-> neg, m |-> <<>>, e |-> 0]
F64Inf(neg) == [nan |-> FALSE, inf |-> TRUE, neg |-> neg, m |-> <<>>, e |-> 0]
F64NaN == [nan |-> TRUE, inf |-> FALSE, neg |-> FALSE, m |-> <<>>, e |-> 0]
\* The float64 nearest to (-1)^neg * m * 2^e (plus a little, when sticky):
\* 53 bits of mantissa, fewer below the smallest normal number, infinity
\* from 2^1024 on.
F64Round(neg, m, e, sticky) ==
  The({The({The({IF mr = <<>> THEN F64Zero(neg)
                 ELSE IF BitLen(mr) + e + shift > 1024 THEN F64Inf(neg)
                 ELSE [nan |-> FALSE, inf |-> FALSE, neg |-> neg, m |-> mr, e |-> e + shift] :
               mr \in {RoundShift(mv, shift, sticky)}}) :
          shift \in {MaxOf({0, BitLen(mv) - MantissaBits, MinExponent - e})}}) :
     mv \in {m}})
\* (-1)^neg * d * 2^e * 10^p as a float64.  A value certain to lie beyond
\* the largest or below the smallest float64 is settled from its size; the
\* others are computed exactly and rounded.
F64Scaled(neg, d, e, p) ==
  The({IF dv = <<>> \/ (IF bits > 0 THEN (bits * 4) \div 10 + 1 ELSE 0) + p < 0 - 330
         THEN F64Zero(neg)
       ELSE IF (IF bits > 0 THEN ((bits - 1) * 3) \div 10 ELSE bits - 1) + p > 310
         THEN F64Inf(neg)
       ELSE The({F64Round(neg, x.q, IF p >= 0 THEN e ELSE e - (64 + 4 * (0 - p)),
                          x.lost) :
                 x \in {IF p >= 0 THEN [q |-> MulPow10(dv, p), lost |-> FALSE]
                        ELSE DivPow10(ShiftLeft(dv, 64 + 4 * (0 - p)), 0 - p, FALSE)}}) :
     dv \in {d}, bits \in {BitLen(d) + e}})
\* strconv's underscoreOK: an underscore stands only between digits, or
\* between a base prefix and a digit.
UnderscoreOK(s) ==
  LET t == IF s # <<>> /\ s[1] \in {"+", "-"} THEN Slice(s, 1, Len(s)) ELSE s
      prefix == Len(t) >= 2 /\ t[1] = "0" /\ ToLowerChar(t[2]) \in {"b", "o", "x"}
      hex == prefix /\ ToLowerChar(t[2]) = "x"
      step(saw, k) ==
        IF saw = "bad" THEN saw
        ELSE IF t[k] \in DigitSet
                \/ (hex /\ ToLowerChar(t[k]) \in {"a", "b", "c", "d", "e", "f"})
          THEN "0"
        ELSE IF t[k] = "_" THEN (IF saw = "0" THEN "_" ELSE "bad")
        ELSE IF saw = "_" THEN "bad" ELSE "!"
  IN  Fold(step, IF prefix THEN "0" ELSE "^", IF prefix THEN 3 ELSE 1, Len(t))
        \notin {"_", "bad"}
\* strconv's readFloat on the whole of s: sign, base, the digits of the
\* mantissa, how many of them follow the point, and the exponent; ok is
\* FALSE when s is not a number from its first to its last character.
ReadFloat(s) ==
  LET sign == IF s # <<>> /\ s[1] \in {"+", "-"} THEN 1 ELSE 0
      hex == sign + 2 < Len(s) /\ s[sign + 1] = "0" /\ ToLowerChar(s[sign + 2]) = "x"
      start == IF hex THEN sign + 2 ELSE sign
      digit(c) == c \in DigitSet \/ (hex /\ ToLowerChar(c) \in {"a", "b", "c", "d", "e", "f"})
      fail == [ok |-> FALSE, neg |-> FALSE, hex |-> FALSE, digits |-> <<>>, frac |-> 0, exp |-> 0]
      \* The number with the mantissa s[start..end) and the exponent exp.
      number(end, exp) ==
        The({[ok |-> TRUE, neg |-> s[1] = "-", hex |-> hex,
              digits |-> SelectSeq(mant, digit),
              frac |-> IF dot < 0 THEN 0
                       ELSE Len(SelectSeq(Slice(mant, dot + 1, Len(mant)), digit)),
              exp |-> exp] :
           mant \in {Slice(s, start, end)}, dot \in {Index(Slice(s, start, end), <<".">>)}})
      \* The digits of the exponent start at offset first.
      exponent(end, first) ==
        IF first >= Len(s) \/ s[first + 1] \notin DigitSet
          \/ \E k \in first + 1 .. Len(s) : s[k] \notin DigitSet \cup {"_"}
          THEN fail
        ELSE The({number(end, IF s[end + 2] = "-" THEN 0 - x ELSE x) :
                  x \in {Fold(LAMBDA acc, k : IF s[k] = "_" \/ acc >= 10000 THEN acc
                                              ELSE acc * 10 + DigitValue(s[k]),
                              0, first + 1, Len(s))}})
      mantissa(end) ==
        IF SelectSeq(Slice(s, start, end), digit) = <<>> THEN fail
        ELSE IF end < Len(s) /\ ToLowerChar(s[end + 1]) = (IF hex THEN "p" ELSE "e")
          THEN exponent(end, IF end + 1 < Len(s) /\ s[end + 2] \in {"+", "-"}
                               THEN end + 2 ELSE end + 1)
        ELSE IF hex \/ end < Len(s) THEN fail
        ELSE number(end, 0)
  IN  IF s = <<>> \/ (Contains(s, <<"_">>) /\ ~UnderscoreOK(s)) THEN fail
      ELSE The({mantissa(end) :
                end \in {MinOf({Len(s)} \cup
                               {i \in start .. Len(s) - 1 :
                                  \/ ~(digit(s[i + 1]) \/ s[i + 1] \in {"_", "."})
                                  \/ (s[i + 1] = "." /\ \E j \in start + 1 .. i : s[j] = ".")})}})
\* strconv.ParseFloat(s, 64): the nearest float64, an error for a text that
\* is no number and for a number beyond the largest float64.
ParseFloat(s) ==
  LET \* The letters of inf, infinity and nan are read in either ASCII case.
      lower(x) == [i \in 1..Len(x) |-> ToLowerChar(x[i])]
  IN  The({IF lower(IF t # <<>> /\ t[1] \in {"+", "-"} THEN Slice(t, 1, Len(t)) ELSE t)
                \in {<<"i","n","f">>, <<"i","n","f","i","n","i","t","y">>}
             THEN [err |-> FALSE, val |-> F64Inf(t[1] = "-")]
           ELSE IF lower(t) = <<"n","a","n">> THEN [err |-> FALSE, val |-> F64NaN]
           ELSE The({IF ~r.ok THEN [err |-> TRUE, val |-> F64Zero(FALSE)]
                     ELSE The({[err |-> v.inf, val |-> v] :
                               v \in {F64Scaled(r.neg, NatFromDigits(r.digits, IF r.hex THEN 16 ELSE 10),
                                                IF r.hex THEN r.exp - 4 * r.frac ELSE 0,
                                                IF r.hex THEN 0 ELSE r.exp - r.frac)}}) :
                   r \in {ReadFloat(t)}}) :
         t \in {s}})
\* x * y for finite x and y.
F64Mul(x, y) == F64Round(x.neg # y.neg, Mul(x.m, y.m), x.e + y.e, FALSE)
\* x / 10^n, for 10^n a float64 (n below 23).
F64DivPow10(x, n) == IF x.nan \/ x.inf THEN x ELSE F64Scaled(x.neg, x.m, x.e, 0 - n)
\* -1, 0 or 1 as x is below, equal to or above y, for x and y other than NaN.
F64Compare(x, y) ==
  LET size(v) == IF v.inf THEN 5000 ELSE IF v.m = <<>> THEN 0 - 5000 ELSE BitLen(v.m) + v.e
      negative(v) == v.neg /\ (v.inf \/ v.m # <<>>)
      \* The mantissas of x and y for the smaller of their exponents.
      aligned == [i \in 1..2 |-> ShiftLeft(<<x, y>>[i].m, <<x, y>>[i].e - Min(x.e, y.e))]
      differ(a, b) == {k \in DOMAIN a : a[k] # b[k]}
      compareNat(a, b) ==
        IF Len(a) # Len(b) THEN (IF Len(a) < Len(b) THEN 0 - 1 ELSE 1)
        ELSE IF differ(a, b) = {} THEN 0
        ELSE IF a[MaxOf(differ(a, b))] < b[MaxOf(differ(a, b))] THEN 0 - 1 ELSE 1
      magnitude(sx, sy) ==
        IF sx # sy THEN (IF sx < sy THEN 0 - 1 ELSE 1)
        ELSE IF x.inf \/ x.m = <<>> THEN 0
        ELSE The({compareNat(v[1], v[2]) : v \in {aligned}})
  IN  IF negative(x) # negative(y) THEN (IF negative(x) THEN 0 - 1 ELSE 1)
      ELSE The({IF negative(x) THEN 0 - c ELSE c : c \in {magnitude(size(x), size(y))}})
\* value == math.Floor(value)
F64IsWhole(x) == x.inf \/ x.e >= 0 \/ ~ShiftRight(x.m, 0 - x.e).lost
\* fmt.Sprintf("%.<prec>f", x): the exact decimal value rounded to prec
\* decimals, ties to even.
F64Format(x, prec) ==
  IF x.nan THEN <<"N","a","N">>
  ELSE IF x.inf THEN <<(IF x.neg THEN "-" ELSE "+"), "I", "n", "f">>
  ELSE The({(IF x.neg THEN <<"-">> ELSE <<>>)
            \o SubSeq(ds, 1, Len(ds) - prec)
            \o (IF prec = 0 THEN <<>> ELSE <<".">> \o SubSeq(ds, Len(ds) - prec + 1, Len(ds))) :
          ds \in {The({NatToDigits(whole, prec + 1) :
                       whole \in {The({IF x.e >= 0 THEN ShiftLeft(scaled, x.e)
                                       ELSE RoundShift(scaled, 0 - x.e, FALSE) :
                                       scaled \in {MulPow10(x.m, prec)}})}})}})

(***************************************************************************)
(* normalizePower, calculateBand, normalizeQSO.                            *)
(***************************************************************************)
\* The regular expression ^(\d+(?:\.\d+)?): the end offset of the leading
\* numeric token of s, 0 when there is none.
NumericPrefixEnd(s) ==
  LET fraction(e1) ==
        IF e1 > 0 /\ e1 < Len(s) /\ s[e1 + 1] = "."
          THEN The({IF e2 > e1 + 1 THEN e2 ELSE e1 : e2 \in {RunEnd(s, e1 + 1, DigitSet)}})
        ELSE e1
  IN  The({fraction(e1) : e1 \in {RunEnd(s, 0, DigitSet)}})
\* The constant the value is multiplied by: 1000 for kw, else (for mw) the
\* float64 nearest to 0.001.
PowerFactor(s) ==
  F64Scaled(FALSE, IF Contains(s, <<"k","w">>) THEN NatOf(1000) ELSE <<1>>, 0,
            IF Contains(s, <<"k","w">>) THEN 0 ELSE 0 - 3)
\* The unit conversion and the rendering of normalizePower, for the trimmed
\* lower-case text s and the value of its numeric token.
ConvertPower(s, value) ==
  The({F64Format(watts, IF F64IsWhole(watts) THEN 0 ELSE 3) :
       watts \in {IF Contains(s, <<"k","w">>) \/ Contains(s, <<"m","w">>)
                    THEN The({F64Mul(value, factor) : factor \in {PowerFactor(s)}})
                  ELSE value}})
normalizePower(powerStr) ==
  LET convert(s, value) == IF value.err THEN s ELSE ConvertPower(s, value.val)
      normal(s) ==
        The({IF e = 0 THEN s
             ELSE The({convert(s, value) : value \in {ParseFloat(Slice(s, 0, e))}}) :
             e \in {NumericPrefixEnd(s)}})
  IN  The({IF p = <<>> THEN p ELSE The({normal(s) : s \in {TrimSpace(ToLower(p))}}) :
           p \in {powerStr}})

\* The band table: name, lower and upper limit in kHz (thousandths of the
\* MHz values of the source).
bandMap ==
  << <<"160M", 1800, 2000>>, <<"80M", 3500, 4000>>, <<"60M", 5330, 5400>>,
     <<"40M", 7000, 7300>>, <<"30M", 10100, 10150>>, <<"20M", 14000, 14350>>,
     <<"17M", 18068, 18168>>, <<"15M", 21000, 21450>>, <<"12M", 24890, 24990>>,
     <<"10M", 28000, 29700>>, <<"6M", 50000, 54000>>, <<"2M", 144000, 148000>>,
     <<"1.25M", 222000, 225000>>, <<"70CM", 420000, 450000>>,
     <<"33CM", 902000, 928000>>, <<"23CM", 1240000, 1300000>> >>
BandChars ==
  "160M" :> <<"1","6","0","M">> @@ "80M" :> <<"8","0","M">> @@
  "60M" :> <<"6","0","M">> @@ "40M" :> <<"4","0","M">> @@
  "30M" :> <<"3","0","M">> @@ "20M" :> <<"2","0","M">> @@
  "17M" :> <<"1","7","M">> @@ "15M" :> <<"1","5","M">> @@
  "12M" :> <<"1","2","M">> @@ "10M" :> <<"1","0","M">> @@
  "6M" :> <<"6","M">> @@ "2M" :> <<"2","M">> @@
  "1.25M" :> <<"1",".","2","5","M">> @@ "70CM" :> <<"7","0","C","M">> @@
  "33CM" :> <<"3","3","C","M">> @@ "23CM" :> <<"2","3","C","M">>
\* The limits of the table as float64: the constants 1.800 (at 2) and
\* 2.000 (at 3), ...
BandLimits ==
  [k \in DOMAIN bandMap |->
     [limit \in {2, 3} |-> F64Scaled(FALSE, NatOf(bandMap[k][limit]), 0, 0 - 3)]]
\* A variant with the upper limit excluded; C15 tells the code from it.
InBandBelowUpper(freq, k) ==
  /\ ~freq.nan
  /\ The({F64Compare(freq, band[2]) >= 0 /\ F64Compare(freq, band[3]) < 0 :
          band \in {BandLimits[k]}})
\* freq >= band.lower && freq <= band.upper, for the k-th entry.
InBand(freq, k) ==
  /\ ~freq.nan
  /\ The({F64Compare(freq, band[2]) >= 0 /\ F64Compare(freq, band[3]) <= 0 :
          band \in {BandLimits[k]}})
\* calculateBand after ParseFloat: "" on an error, else the name of the
\* first entry that holds the frequency, "" when none does.
FirstBand(parsed) ==
  IF parsed.err THEN <<>>
  ELSE The({IF hits = {} THEN <<>> ELSE BandChars[bandMap[MinOf(hits)][1]] :
            hits \in {{k \in DOMAIN bandMap : InBand(parsed.val, k)}}})
calculateBand(freqStr) == The({FirstBand(parsed) : parsed \in {ParseFloat(freqStr)}})
\* A variant that would normalise the power and leave the band alone; C10
\* tells the code from it.
normalizePowerOnly(qso) == [qso EXCEPT !["POWER"] = normalizePower(qso["POWER"])]
\* normalizeQSO: the power is normalised, then the band is computed from a
\* non-empty FREQ.
normalizeQSO(qso) ==
  The({IF q["FREQ"] # <<>> THEN [q EXCEPT !["BAND"] = calculateBand(q["FREQ"])] ELSE q :
       q \in {[qso EXCEPT !["POWER"] = normalizePower(qso["POWER"])]}})

(***************************************************************************)
(* parseXMLMessage.                                                        *)
(***************************************************************************)
\* The child elements of WSJTContactInfo (the xml struct tags).
XmlElements ==
  "timestamp" :> <<"t","i","m","e","s","t","a","m","p">> @@
  "call" :> <<"c","a","l","l">> @@
  "mode" :> <<"m","o","d","e">> @@
  "txfreq" :> <<"t","x","f","r","e","q">> @@
  "rxfreq" :> <<"r","x","f","r","e","q">> @@
  "rcv" :> <<"r","c","v">> @@
  "snt" :> <<"s","n","t">> @@
  "power" :> <<"p","o","w","e","r">> @@
  "operator" :> <<"o","p","e","r","a","t","o","r">> @@
  "comment" :> <<"c","o","m","m","e","n","t">> @@
  "sntnr" :> <<"s","n","t","n","r">> @@
  "rcvnr" :> <<"r","c","v","n","r">> @@
  "mycall" :> <<"m","y","c","a","l","l">> @@
  "gridsquare" :> <<"g","r","i","d","s","q","u","a","r","e">>
ContactInfoName == <<"c","o","n","t","a","c","t","i","n","f","o">>
EmptyContactInfo == [e \in DOMAIN XmlElements |-> <<>>]
\* encoding/xml's table first: the ranges of the code points that may
\* start a name (the letters of XML 1.0, '_' and ':').
XmlFirst ==
  << <<58, 58>>, <<65, 90>>, <<95, 95>>, <<97, 122>>, <<192, 214>>, <<216, 246>>,
     <<248, 305>>, <<308, 318>>, <<321, 328>>, <<330, 382>>, <<384, 451>>, <<461, 496>>,
     <<500, 501>>, <<506, 535>>, <<592, 680>>, <<699, 705>>, <<902, 902>>, <<904, 906>>,
     <<908, 908>>, <<910, 929>>, <<931, 974>>, <<976, 982>>, <<986, 986>>, <<988, 988>>,
     <<990, 990>>, <<992, 992>>, <<994, 1011>>, <<1025, 1036>>, <<1038, 1103>>, <<1105, 1116>>,
     <<1118, 1153>>, <<1168, 1220>>, <<1223, 1224>>, <<1227, 1228>>, <<1232, 1259>>, <<1262, 1269>>,
     <<1272, 1273>>, <<1329, 1366>>, <<1369, 1369>>, <<1377, 1414>>, <<1488, 1514>>, <<1520, 1522>>,
     <<1569, 1594>>, <<1601, 1610>>, <<1649, 1719>>, <<1722, 1726>>, <<1728, 1742>>, <<1744, 1747>>,
     <<1749, 1749>>, <<1765, 1766>>, <<2309, 2361>>, <<2365, 2365>>, <<2392, 2401>>, <<2437, 2444>>,
     <<2447, 2448>>, <<2451, 2472>>, <<2474, 2480>>, <<2482, 2482>>, <<2486, 2489>>, <<2524, 2525>>,
     <<2527, 2529>>, <<2544, 2545>>, <<2565, 2570>>, <<2575, 2576>>, <<2579, 2600>>, <<2602, 2608>>,
     <<2610, 2611>>, <<2613, 2614>>, <<2616, 2617>>, <<2649, 2652>>, <<2654, 2654>>, <<2674, 2676>>,
     <<2693, 2699>>, <<2701, 2701>>, <<2703, 2705>>, <<2707, 2728>>, <<2730, 2736>>, <<2738, 2739>>,
     <<2741, 2745>>, <<2749, 2749>>, <<2784, 2784>>, <<2821, 2828>>, <<2831, 2832>>, <<2835, 2856>>,
     <<2858, 2864>>, <<2866, 2867>>, <<2870, 2873>>, <<2877, 2877>>, <<2908, 2909>>, <<2911, 2913>>,
     <<2949, 2954>>, <<2958, 2960>>, <<2962, 2965>>, <<2969, 2970>>, <<2972, 2972>>, <<2974, 2975>>,
     <<2979, 2980>>, <<2984, 2986>>, <<2990, 2997>>, <<2999, 3001>>, <<3077, 3084>>, <<3086, 3088>>,
     <<3090, 3112>>, <<3114, 3123>>, <<3125, 3129>>, <<3168, 3169>>, <<3205, 3212>>, <<3214, 3216>>,
     <<3218, 3240>>, <<3242, 3251>>, <<3253, 3257>>, <<3294, 3294>>, <<3296, 3297>>, <<3333, 3340>>,
     <<3342, 3344>>, <<3346, 3368>>, <<3370, 3385>>, <<3424, 3425>>, <<3585, 3630>>, <<3632, 3632>>,
     <<3634, 3635>>, <<3648, 3653>>, <<3713, 3714>>, <<3716, 3716>>, <<3719, 3720>>, <<3722, 3722>>,
     <<3725, 3725>>, <<3732, 3735>>, <<3737, 3743>>, <<3745, 3747>>, <<3749, 3749>>, <<3751, 3751>>,
     <<3754, 3755>>, <<3757, 3758>>, <<3760, 3760>>, <<3762, 3763>>, <<3773, 3773>>, <<3776, 3780>>,
     <<3904, 3911>>, <<3913, 3945>>, <<4256, 4293>>, <<4304, 4342>>, <<4352, 4352>>, <<4354, 4355>>,
     <<4357, 4359>>, <<4361, 4361>>, <<4363, 4364>>, <<4366, 4370>>, <<4412, 4412>>, <<4414, 4414>>,
     <<4416, 4416>>, <<4428, 4428>>, <<4430, 4430>>, <<4432, 4432>>, <<4436, 4437>>, <<4441, 4441>>,
     <<4447, 4449>>, <<4451, 4451>>, <<4453, 4453>>, <<4455, 4455>>, <<4457, 4457>>, <<4461, 4462>>,
     <<4466, 4467>>, <<4469, 4469>>, <<4510, 4510>>, <<4520, 4520>>, <<4523, 4523>>, <<4526, 4527>>,
     <<4535, 4536>>, <<4538, 4538>>, <<4540, 4546>>, <<4587, 4587>>, <<4592, 4592>>, <<4601, 4601>>,
     <<7680, 7835>>, <<7840, 7929>>, <<7936, 7957>>, <<7960, 7965>>, <<7968, 8005>>, <<8008, 8013>>,
     <<8016, 8023>>, <<8025, 8025>>, <<8027, 8027>>, <<8029, 8029>>, <<8031, 8061>>, <<8064, 8116>>,
     <<8118, 8124>>, <<8126, 8126>>, <<8130, 8132>>, <<8134, 8140>>, <<8144, 8147>>, <<8150, 8155>>,
     <<8160, 8172>>, <<8178, 8180>>, <<8182, 8188>>, <<8486, 8486>>, <<8490, 8491>>, <<8494, 8494>>,
     <<8576, 8578>>, <<12295, 12295>>, <<12321, 12329>>, <<12353, 12436>>, <<12449, 12538>>, <<12549, 12588>>,
     <<19968, 40869>>, <<44032, 55203>> >>
\* encoding/xml's table second: the ranges of the code points that may
\* follow in a name (digits, combining characters, extenders, '-', '.').
XmlSecond ==
  << <<45, 46>>, <<48, 57>>, <<183, 183>>, <<720, 721>>, <<768, 837>>, <<864, 865>>,
     <<903, 903>>, <<1155, 1158>>, <<1425, 1441>>, <<1443, 1465>>, <<1467, 1469>>, <<1471, 1471>>,
     <<1473, 1474>>, <<1476, 1476>>, <<1600, 1600>>, <<1611, 1618>>, <<1632, 1641>>, <<1648, 1648>>,
     <<1750, 1764>>, <<1767, 1768>>, <<1770, 1773>>, <<1776, 1785>>, <<2305, 2307>>, <<2364, 2364>>,
     <<2366, 2381>>, <<2385, 2388>>, <<2402, 2403>>, <<2406, 2415>>, <<2433, 2435>>, <<2492, 2492>>,
     <<2494, 2500>>, <<2503, 2504>>, <<2507, 2509>>, <<2519, 2519>>, <<2530, 2531>>, <<2534, 2543>>,
     <<2562, 2562>>, <<2620, 2620>>, <<2622, 2626>>, <<2631, 2632>>, <<2635, 2637>>, <<2662, 2673>>,
     <<2689, 2691>>, <<2748, 2748>>, <<2750, 2757>>, <<2759, 2761>>, <<2763, 2765>>, <<2790, 2799>>,
     <<2817, 2819>>, <<2876, 2876>>, <<2878, 2883>>, <<2887, 2888>>, <<2891, 2893>>, <<2902, 2903>>,
     <<2918, 2927>>, <<2946, 2947>>, <<3006, 3010>>, <<3014, 3016>>, <<3018, 3021>>, <<3031, 3031>>,
     <<3047, 3055>>, <<3073, 3075>>, <<3134, 3140>>, <<3142, 3144>>, <<3146, 3149>>, <<3157, 3158>>,
     <<3174, 3183>>, <<3202, 3203>>, <<3262, 3268>>, <<3270, 3272>>, <<3274, 3277>>, <<3285, 3286>>,
     <<3302, 3311>>, <<3330, 3331>>, <<3390, 3395>>, <<3398, 3400>>, <<3402, 3405>>, <<3415, 3415>>,
     <<3430, 3439>>, <<3633, 3633>>, <<3636, 3642>>, <<3654, 3662>>, <<3664, 3673>>, <<3761, 3761>>,
     <<3764, 3769>>, <<3771, 3772>>, <<3782, 3782>>, <<3784, 3789>>, <<3792, 3801>>, <<3864, 3865>>,
     <<3872, 3881>>, <<3893, 3893>>, <<3895, 3895>>, <<3897, 3897>>, <<3902, 3903>>, <<3953, 3972>>,
     <<3974, 3979>>, <<3984, 3989>>, <<3991, 3991>>, <<3993, 4013>>, <<4017, 4023>>, <<4025, 4025>>,
     <<8400, 8412>>, <<8417, 8417>>, <<12293, 12293>>, <<12330, 12335>>, <<12337, 12341>>, <<12441, 12442>>,
     <<12445, 12446>>, <<12540, 12542>> >>
\* The decoder's name (and, for ns, nsname) at offset p of s: the run of
\* bytes that are name bytes or beyond ASCII (readName), which must be
\* followed by another byte, be a name (isName: UTF-8, the first code point
\* in first and the others in first or second) and, when it names an
\* element or an attribute, hold at most one colon.
XmlName(s, p, ns) ==
  LET in(table, r) == \E k \in DOMAIN table : table[k][1] <= r /\ r <= table[k][2]
      \* isName, for the code points rs of the name
      isName(first, second, rs) ==
        \A k \in DOMAIN rs :
          rs[k].start =>
            /\ ~(rs[k].rune = 65533 /\ rs[k].size = 1)
            /\ (in(first, rs[k].rune) \/ (k > 0 /\ in(second, rs[k].rune)))
  IN  The({[ok |-> /\ p < end
                   /\ end < Len(s)
                   /\ The({isName(first, second, rs) :
                           first \in {XmlFirst}, second \in {XmlSecond},
                           rs \in {Runes(Slice(s, p, end))}})
                   /\ (ns => Cardinality({k \in p + 1 .. end : s[k] = ":"}) <= 1),
            name |-> Slice(s, p, end), next |-> end] :
           \* the bytes from p that are name bytes (isNameByte) or beyond ASCII
           end \in {MinOf({Len(s)} \cup
                          {i \in p .. Len(s) - 1 :
                             /\ s[i + 1] \notin UpperSet \cup LowerSet \cup DigitSet
                                                  \cup {"_", ":", ".", "-"}
                             /\ ByteOf[s[i + 1]] < 128})}})
\* The decoder's text: the character data seg (of an element, of a quoted
\* attribute value or, for cdata, of a CDATA section) with its character
\* and entity references replaced and its line ends normalised; an error
\* for a reference that is not lt, gt, amp, apos, quot or the number of a
\* code point up to U+10FFFF, for ]]> outside CDATA, for bytes that are no
\* UTF-8 and for a character XML does not allow (isInCharacterRange).
XmlText(text, cdata) ==
  LET \* What the decoder puts for the character at i of seg: the code point
      \* of the reference that begins there (-1 when it is none), or bytes.
      decode(seg) ==
        LET named == <<"l","t">> :> 60 @@ <<"g","t">> :> 62 @@ <<"a","m","p">> :> 38
                     @@ <<"a","p","o","s">> :> 39 @@ <<"q","u","o","t">> :> 34
            RECURSIVE number(_, _, _, _)
            number(ds, base, k, acc) ==
              IF k > Len(ds) THEN acc
              ELSE number(ds, base, k + 1, Min(2 ^ 21, acc * base + DigitValue(ds[k])))
            \* strconv.ParseUint and the test n <= unicode.MaxRune.
            numeric(ds, base, digits) ==
              IF ds = <<>> \/ \E k \in 1..Len(ds) : ToLowerChar(ds[k]) \notin digits
                THEN 0 - 1
              ELSE The({IF n > 1114111 THEN 0 - 1 ELSE n : n \in {number(ds, base, 1, 0)}})
            reference(body) ==
              IF body \in DOMAIN named THEN named[body]
              ELSE IF body = <<>> \/ body[1] # "#" THEN 0 - 1
              ELSE IF Len(body) >= 2 /\ body[2] = "x"
                THEN numeric(Slice(body, 2, Len(body)), 16,
                             DigitSet \cup {"a", "b", "c", "d", "e", "f"})
              ELSE numeric(Slice(body, 1, Len(body)), 10, DigitSet)
            lastBefore(c, i) == MaxOf({0} \cup {k \in 1 .. i - 1 : seg[k] = c})
            \* Whether the character at i lies in a reference opened before it.
            inReference(i) == ~cdata /\ lastBefore("&", i) > lastBefore(";", i)
            bytes(s) == [ref |-> FALSE, n |-> 0, s |-> s]
            piece(i) ==
              IF inReference(i) THEN bytes(<<>>)
              ELSE IF seg[i] = "&" /\ ~cdata
                THEN The({[ref |-> TRUE,
                           n |-> IF semi < 0 THEN 0 - 1 ELSE reference(Slice(seg, i, semi)),
                           s |-> <<>>] :
                          semi \in {IndexFrom(seg, <<";">>, i)}})
              ELSE IF seg[i] = "\r" THEN bytes(<<"\n">>)
              ELSE IF seg[i] = "\n" /\ i > 1 /\ seg[i - 1] = "\r" THEN bytes(<<>>)
              ELSE bytes(<<seg[i]>>)
        IN  [i \in 1..Len(seg) |-> piece(i)]
      \* The text is UTF-8 and every character is one XML allows.
      isInCharacterRange(rs) ==
        \A k \in DOMAIN rs :
          rs[k].start =>
            /\ ~(rs[k].rune = 65533 /\ rs[k].size = 1)
            /\ \/ rs[k].rune \in {9, 10, 13} \/ rs[k].rune \in 32..55295
               \/ rs[k].rune \in 57344..65533 \/ rs[k].rune \in 65536..1114111
  IN  The({The({IF \/ ~cdata /\ Contains(text, <<"]","]",">">>)
                   \/ \E i \in 1..Len(p) : p[i].ref /\ p[i].n < 0
                   \/ ~The({isInCharacterRange(rs) : rs \in {Runes(data)}})
                  THEN [err |-> TRUE, data |-> <<>>]
                ELSE [err |-> FALSE, data |-> data] :
                data \in {Concat([i \in 1..Len(p) |->
                                    \* string(rune(n)) for a reference
                                    IF p[i].ref /\ p[i].n >= 0 THEN EncodeRune(p[i].n)
                                    ELSE p[i].s],
                                 1, Len(p))}}) :
           p \in {decode(text)}})
\* encoding/xml's procInst: the quoted value that follows param (a name and
\* an equals sign) in the text of an XML declaration, <<>> when none does.
RECURSIVE XmlProcInst(_, _, _)
XmlProcInst(param, s, i) ==
  LET value(from) ==
        The({IF j < 0 THEN <<>> ELSE Slice(s, from, j) :
             j \in {IndexFrom(s, <<s[from]>>, from)}})
      at(k) ==
        IF k < 0 \/ k + Len(param) >= Len(s) THEN <<>>
        ELSE IF s[k + Len(param) + 1] \in {"'", "\""} THEN value(k + Len(param) + 1)
        ELSE XmlProcInst(param, s, k + Len(param) + 1)
  IN  IF i >= Len(s) THEN <<>> ELSE The({at(k) : k \in {IndexFrom(s, param, i)}})
\* The decoder's Token at offset p of s: kind "start" (with the name and
\* whether the tag closes itself), "end" (with the name), "text" (with the
\* decoded data), "other" (a comment, a processing instruction, a
\* directive), "eof" or "error"; next is the offset after the token.
XmlToken(s, p) ==
  LET token(kind, next, name, empty, data) ==
        [kind |-> kind, next |-> next, name |-> name, empty |-> empty, data |-> data]
      fail == token("error", p, <<>>, FALSE, <<>>)
      at(i) == IF i < Len(s) THEN s[i + 1] ELSE ""
      space(i) == MinOf({Len(s)} \cup {k \in i .. Len(s) - 1 : s[k + 1] \notin {" ", "\r", "\n", "\t"}})
      text ==
        The({The({IF t.err THEN fail ELSE token("text", end, <<>>, FALSE, t.data) :
                  t \in {XmlText(Slice(s, p, end), FALSE)}}) :
           end \in {MinOf({Len(s)} \cup {k \in p .. Len(s) - 1 : s[k + 1] = "<"})}})
      endTag ==
        The({IF ~n.ok THEN fail
             ELSE The({IF at(close) # ">" THEN fail
                       ELSE token("end", close + 1, n.name, FALSE, <<>>) :
                       close \in {space(n.next)}}) :
           n \in {XmlName(s, p + 2, TRUE)}})
      \* strings.EqualFold with "utf-8", whose letters fold with their ASCII
      \* capitals only.
      fold(enc) == [i \in 1..Len(enc) |-> ToLowerChar(enc[i])]
      declaration(content) ==
        The({The({(ver = <<>> \/ ver = <<"1",".","0">>)
                  /\ (enc = <<>> \/ fold(enc) = <<"u","t","f","-","8">>) :
                ver \in {XmlProcInst(<<"v","e","r","s","i","o","n","=">>, c, 0)},
                enc \in {XmlProcInst(<<"e","n","c","o","d","i","n","g","=">>, c, 0)}}) :
           c \in {content}})
      instruction ==
        The({IF ~n.ok THEN fail
             ELSE The({IF end < 0 THEN fail
                       ELSE IF n.name = <<"x","m","l">> /\ ~declaration(Slice(s, from, end))
                         THEN fail
                       ELSE token("other", end + 2, <<>>, FALSE, <<>>) :
                     from \in {space(n.next)}, end \in {IndexFrom(s, <<"?",">">>, space(n.next))}}) :
           n \in {XmlName(s, p + 2, FALSE)}})
      comment ==
        The({IF at(p + 3) # "-" \/ dashes < 0 \/ at(dashes + 2) # ">" THEN fail
             ELSE token("other", dashes + 3, <<>>, FALSE, <<>>) :
           dashes \in {IndexFrom(s, <<"-","-">>, p + 4)}})
      cdata ==
        The({IF ~HasPrefixAt(s, <<"C","D","A","T","A","[">>, p + 3) \/ end < 0 THEN fail
             ELSE The({IF t.err THEN fail
                       ELSE token("text", end + 3, <<>>, FALSE, t.data) :
                       t \in {XmlText(Slice(s, p + 9, end), TRUE)}}) :
           end \in {IndexFrom(s, <<"]","]",">">>, p + 9)}})
      \* One byte of a directive, read in the state st: the offset i, the
      \* open quote, the depth of nested angle brackets; done at the closing
      \* bracket, and bad at the end of the text.
      RECURSIVE handle(_, _, _)
      handle(st, b, n) ==
        IF b = st.quote THEN [st EXCEPT !.i = n, !.quote = ""]
        ELSE IF st.quote # "" THEN [st EXCEPT !.i = n]
        ELSE IF b \in {"'", "\""} THEN [st EXCEPT !.i = n, !.quote = b]
        ELSE IF b = ">" THEN [st EXCEPT !.i = n, !.depth = st.depth - 1]
        ELSE IF b = "<"
          THEN The({IF m = 3
                      THEN The({IF end < 0 THEN [st EXCEPT !.bad = TRUE]
                                ELSE [st EXCEPT !.i = end + 3] :
                                end \in {IndexFrom(s, <<"-","-",">">>, n + 3)}})
                    ELSE IF n + m >= Len(s) THEN [st EXCEPT !.bad = TRUE]
                    ELSE handle([st EXCEPT !.depth = st.depth + 1], s[n + m + 1], n + m + 1) :
                  m \in {MinOf({3} \cup {m \in 0..2 : at(n + m) # <<"!","-","-">>[m + 1]})}})
        ELSE [st EXCEPT !.i = n]
      step(st) ==
        IF st.done \/ st.bad THEN st
        ELSE IF st.i >= Len(s) THEN [st EXCEPT !.bad = TRUE]
        ELSE IF st.quote = "" /\ s[st.i + 1] = ">" /\ st.depth = 0
          THEN [st EXCEPT !.i = st.i + 1, !.done = TRUE]
        ELSE handle(st, s[st.i + 1], st.i + 1)
      RECURSIVE scan(_, _)
      scan(st, n) ==
        IF n <= 1 \/ st.done \/ st.bad THEN step(st)
        ELSE The({The({scan(first, n - half) : first \in {scan(st, half)}}) :
                  half \in {n \div 2}})
      directive ==
        The({IF end.done THEN token("other", end.i, <<>>, FALSE, <<>>) ELSE fail :
             end \in {scan([i |-> p + 3, quote |-> "", depth |-> 0, done |-> FALSE, bad |-> FALSE],
                           Len(s) + 1)}})
      \* The attributes of a start tag and its end, from offset i.
      RECURSIVE attributes(_, _)
      attributes(name, i) ==
        LET value(open) ==
              The({IF at(open) \notin {"'", "\""} \/ at(close) # at(open)
                        \/ XmlText(Slice(s, open + 1, close), FALSE).err THEN fail
                   ELSE attributes(name, close + 1) :
                 close \in {MinOf({Len(s)} \cup {k \in open + 1 .. Len(s) - 1 :
                                                   s[k + 1] \in {at(open), "<"}})}})
            equals(e) == IF at(e) # "=" THEN fail ELSE The({value(open) : open \in {space(e + 1)}})
            attribute(a) ==
              The({IF ~n.ok THEN fail ELSE The({equals(e) : e \in {space(n.next)}}) :
                   n \in {XmlName(s, a, TRUE)}})
            tagEnd(a) ==
              IF at(a) = ">" THEN token("start", a + 1, name, FALSE, <<>>)
              ELSE IF at(a) = "/"
                THEN (IF at(a + 1) = ">" THEN token("start", a + 2, name, TRUE, <<>>) ELSE fail)
              ELSE IF at(a) = "" THEN fail
              ELSE attribute(a)
        IN  The({tagEnd(a) : a \in {space(i)}})
      startTag ==
        The({IF ~n.ok THEN fail ELSE attributes(n.name, n.next) :
             n \in {XmlName(s, p + 1, TRUE)}})
  IN  IF p >= Len(s) THEN token("eof", p, <<>>, FALSE, <<>>)
      ELSE IF s[p + 1] # "<" THEN text
      ELSE IF at(p + 1) = "/" THEN endTag
      ELSE IF at(p + 1) = "?" THEN instruction
      ELSE IF at(p + 1) = "!"
        THEN (IF at(p + 2) = "-" THEN comment
              ELSE IF at(p + 2) = "[" THEN cdata
              ELSE IF at(p + 2) = "" THEN fail
              ELSE directive)
      ELSE startTag
\* xml.Unmarshal into WSJTContactInfo: the tokens before the first start
\* tag are passed over; that tag must be named contactinfo; each of its
\* children named as a field sets the field to the character data directly
\* inside it (a later one overwrites), and any other element is skipped
\* with what it holds; an end tag must name the element it closes, and
\* reading stops at the end of the root.  The state st of the reading is
\* the offset, the names of the open elements, the fields so far and the
\* character data of the child being read.
XmlUnmarshal(message) ==
  LET \* The local part of a name: what follows the colon, when there is
      \* text on both sides of it.
      local(name) ==
        The({IF colon <= 0 \/ colon = Len(name) - 1 THEN name
             ELSE Slice(name, colon + 1, Len(name)) :
             colon \in {Index(name, <<":">>)}})
      field(name) == {e \in DOMAIN XmlElements : XmlElements[e] = local(name)}
      \* Whether the elements open are the root and a child that is a field.
      reading(st) == Len(st.open) = 2 /\ field(st.open[2]) # {}
      set(st, name, data) ==
        [e \in DOMAIN XmlElements |-> IF e \in field(name) THEN data ELSE st.info[e]]
      start(st, t) ==
        IF st.open = <<>> /\ local(t.name) # ContactInfoName THEN [st EXCEPT !.err = TRUE]
        ELSE IF t.empty
          THEN (IF st.open = <<>> THEN [st EXCEPT !.done = TRUE]
                ELSE IF Len(st.open) = 1
                  THEN [st EXCEPT !.p = t.next, !.info = set(st, t.name, <<>>)]
                ELSE [st EXCEPT !.p = t.next])
        ELSE [st EXCEPT !.p = t.next, !.open = Append(st.open, t.name),
                        !.data = IF Len(st.open) = 1 THEN <<>> ELSE st.data]
      end(st, t) ==
        IF st.open = <<>> \/ st.open[Len(st.open)] # t.name THEN [st EXCEPT !.err = TRUE]
        ELSE IF Len(st.open) = 1 THEN [st EXCEPT !.done = TRUE]
        ELSE [st EXCEPT !.p = t.next, !.open = SubSeq(st.open, 1, Len(st.open) - 1),
                        !.info = IF reading(st) THEN set(st, st.open[2], st.data) ELSE st.info]
      step(st) ==
        IF st.done \/ st.err THEN st
        ELSE The({IF t.kind \in {"error", "eof"} THEN [st EXCEPT !.err = TRUE]
                  ELSE IF t.kind = "start" THEN start(st, t)
                  ELSE IF t.kind = "end" THEN end(st, t)
                  ELSE IF t.kind = "text" /\ reading(st)
                    THEN [st EXCEPT !.p = t.next, !.data = st.data \o t.data]
                  ELSE [st EXCEPT !.p = t.next] :
                t \in {XmlToken(message, st.p)}})
      RECURSIVE read(_, _)
      read(st, n) ==
        IF n <= 1 \/ st.done \/ st.err THEN step(st)
        ELSE The({The({read(first, n - half) : first \in {read(st, half)}}) :
                  half \in {n \div 2}})
  IN  The({[err |-> st.err, info |-> IF st.err THEN EmptyContactInfo ELSE st.info] :
           st \in {read([p |-> 0, open |-> <<>>, info |-> EmptyContactInfo, data |-> <<>>,
                         done |-> FALSE, err |-> FALSE],
                        Len(message) + 1)}})

\* The number written by the digits of s at offsets a..b-1, or -1 when one
\* of them is no digit or lies beyond the end of s.
Num(s, a, b) ==
  IF b <= Len(s) /\ \A k \in (a + 1)..b : s[k] \in DigitSet
    THEN DigitsValue(Slice(s, a, b), 1, 0) ELSE 0 - 1
DaysIn(year, month) ==
  IF month = 2
    THEN (IF year % 4 = 0 /\ (year % 100 # 0 \/ year % 400 = 0) THEN 29 ELSE 28)
  ELSE IF month \in {4, 6, 9, 11} THEN 30 ELSE 31
\* time.Parse("2006-01-02T15:04:05", s) followed by Format("20060102") and
\* Format("150405"): four digits of year, two of month and of day, one or
\* two of hour, two of minute and of second, then nothing or a fraction of
\* a second (a point or a comma and digits), which the formats leave out.
ParseTimestamp(s) ==
  LET at(i) == IF i < Len(s) THEN s[i + 1] ELSE ""
      \* h is the offset after the hour.
      valid(h) ==
        /\ Num(s, 0, 4) >= 0 /\ at(4) = "-"
        /\ Num(s, 5, 7) \in 1..12 /\ at(7) = "-"
        /\ Num(s, 8, 10) >= 1 /\ Num(s, 8, 10) <= DaysIn(Num(s, 0, 4), Num(s, 5, 7))
        /\ at(10) = "T"
        /\ Num(s, 11, h) \in 0..23 /\ at(h) = ":"
        /\ Num(s, h + 1, h + 3) \in 0..59 /\ at(h + 3) = ":"
        /\ Num(s, h + 4, h + 6) \in 0..59
        /\ \/ Len(s) = h + 6
           \/ /\ Len(s) >= h + 8
              /\ at(h + 6) \in {".", ","}
              /\ \A k \in h + 8 .. Len(s) : s[k] \in DigitSet
      hour(h) == IF h = 12 THEN <<"0", at(11)>> ELSE Slice(s, 11, 13)
      parsed(h) ==
        IF ~valid(h) THEN [err |-> TRUE, date |-> <<>>, time |-> <<>>]
        ELSE [err |-> FALSE,
              date |-> Slice(s, 0, 4) \o Slice(s, 5, 7) \o Slice(s, 8, 10),
              time |-> hour(h) \o Slice(s, h + 1, h + 3) \o Slice(s, h + 4, h + 6)]
  IN  The({parsed(h) : h \in {IF at(12) \in DigitSet THEN 13 ELSE 12}})
\* freq / 100000
DivHundredThousand(v) == F64DivPow10(v, 5)
\* The QSO literal of parseXMLMessage, from the unmarshalled elements, the
\* parsed timestamp and the two frequencies.
ContactQSO(c, ts, freqMHz, freqRXMHz) ==
  [EmptyQSO EXCEPT
     !["CALL"] = c["call"],
     !["MODE"] = IF c["mode"] = <<"U","S","B">> \/ c["mode"] = <<"L","S","B">> THEN <<"S","S","B">> ELSE c["mode"],
     !["QSO_DATE_OFF"] = ts.date,
     !["QSO_DATE"] = ts.date,
     !["TIME_OFF"] = ts.time,
     !["TIME_ON"] = ts.time,
     !["RST_RCVD"] = c["rcv"],
     !["RST_SENT"] = c["snt"],
     !["FREQ"] = freqMHz,
     !["FREQ_RX"] = freqRXMHz,
     !["OPERATOR"] = c["operator"],
     !["COMMENT"] = c["comment"],
     !["POWER"] = c["power"],
     !["STX"] = c["sntnr"],
     !["RTX"] = c["rcvnr"],
     !["MYCALL"] = c["mycall"],
     !["GRIDSQUARE"] = c["gridsquare"],
     !["STATION_CALLSIGN"] = c["mycall"]]
\* parseXMLMessage: status "ok" with the record or "error" with the empty one.
parseXMLMessage(message) ==
  LET \* fmt.Sprintf("%.6f", freq / 100000), for the two frequencies alike
      mhz(freq) == [e \in DOMAIN freq |-> F64Format(DivHundredThousand(freq[e].val), 6)]
      freqs(c, ts) ==
        The({IF freq["txfreq"].err \/ freq["rxfreq"].err
               THEN [status |-> "error", qso |-> EmptyQSO]
             ELSE The({[status |-> "ok",
                        qso |-> ContactQSO(c, ts, f["txfreq"], f["rxfreq"])] :
                       f \in {mhz(freq)}}) :
           freq \in {[e \in {"txfreq", "rxfreq"} |-> ParseFloat(c[e])]}})
      timestamp(x) ==
        IF x.err THEN [status |-> "error", qso |-> EmptyQSO]
        ELSE The({IF ts.err THEN [status |-> "error", qso |-> EmptyQSO]
                  ELSE freqs(x.info, ts) :
                  ts \in {ParseTimestamp(x.info["timestamp"])}})
  IN  The({The({timestamp(x) : x \in {XmlUnmarshal(m)}}) : m \in {message}})

(***************************************************************************)
(* processMessage, processMultipleQSOs, processSingleQSO.                  *)
(***************************************************************************)
xml == <<"x","m","l">>
\* A variant that would look for the record delimiter before it looks for
\* xml; C9 tells the code from it.
DispatchDelimiterFirst(message) ==
  IF Contains(message, EOR) THEN "batch"
  ELSE IF Contains(message, xml) THEN "xml"
  ELSE "single"
\* The format dispatch of processMessage: "xml", "batch" or "single".
Dispatch(message) ==
  IF Contains(message, xml) THEN "xml"
  ELSE IF Contains(message, EOR) THEN "batch"
  ELSE "single"
\* The loop body of processMultipleQSOs up to the call of processSingleQSO,
\* for the element at 0-based index i of qsoRecords: <<>> when the trimmed
\* element is empty (continue), else the text passed on.
SegmentAt(qsoRecords, i) ==
  The({IF qsoRecord = <<>> THEN <<>>
       ELSE IF i < Len(qsoRecords) - 1 THEN qsoRecord \o EOR
       ELSE qsoRecord :
     qsoRecord \in {TrimSpace(qsoRecords[i + 1])}})
\* The texts processMultipleQSOs passes to processSingleQSO, in order.
RECURSIVE SegmentsFrom(_, _)
SegmentsFrom(qsoRecords, i) ==
  LET step(iv) ==
        IF iv >= Len(qsoRecords) THEN <<>>
        ELSE The({IF seg = <<>> THEN <<>> ELSE <<seg>> : seg \in {SegmentAt(qsoRecords, iv)}})
             \o SegmentsFrom(qsoRecords, iv + 1)
  IN  The({step(iv) : iv \in {i}})
BatchSegments(adifPayload) ==
  The({SegmentsFrom(qsoRecords, 0) : qsoRecords \in {Split(adifPayload, EOR)}})
\* processSingleQSO up to the call of sendToWaveLog: parse, and on success
\* normalise and serialise.
processSingleQSO(message, isXML) ==
  LET send(qso) == [status |-> "ok", qso |-> qso, adif |-> generateADIF(qso)]
      normalize(parsed) ==
        IF parsed.status # "ok"
          THEN [status |-> parsed.status, qso |-> EmptyQSO, adif |-> <<>>]
        ELSE The({send(qso) : qso \in {normalizeQSO(parsed.qso)}})
  IN  The({normalize(parsed) :
           parsed \in {IF isXML THEN parseXMLMessage(message) ELSE parseADIFMessage(message)}})

(***************************************************************************)
(* Inputs.                                                                 *)
(***************************************************************************)
\* A tag with its data: the field the tag names ("" for a name the parser
\* does not know), the tag text <name:decl> and the data that follows it.
Chunk(field, name, decl, data) ==
  [field |-> field, decl |-> decl, data |-> data,
   tag |-> <<"<">> \o name \o <<":">> \o Itoa(decl) \o <<">">>]
K1ABC == <<"K","1","A","B","C">>
K2DEF == <<"K","2","D","E","F">>
FT8 == <<"F","T","8">>
WellFormedChunks ==
  { Chunk("CALL", TagName["CALL"], 5, K1ABC),
    Chunk("CALL", TagName["CALL"], 5, K2DEF),
    Chunk("MODE", TagName["MODE"], 3, <<"U","S","B">>),
    Chunk("QSO_DATE", TagName["QSO_DATE"], 8, <<"2","0","2","4","0","1","0","1">>),
    Chunk("QSO_DATE_OFF", TagName["QSO_DATE_OFF"], 8, <<"2","0","2","4","0","1","0","2">>),
    Chunk("TIME_ON", TagName["TIME_ON"], 4, <<"1","2","0","0">>),
    Chunk("TIME_OFF", TagName["TIME_OFF"], 4, <<"1","2","3","0">>),
    Chunk("MY_CALL", TagName["MY_CALL"], 5, <<"W","1","A","A","A">>),
    Chunk("TX_PWR", TagName["TX_PWR"], 5, <<"1",".","5","k","W">>),
    Chunk("FREQ", TagName["FREQ"], 6, <<"1","4",".","0","7","4">>),
    Chunk("BAND", TagName["BAND"], 3, <<"4","0","M">>),
    Chunk("", <<"F","O","O">>, 3, <<"a","b","c">>),
    Chunk("COMMENT", TagName["COMMENT"], 13, <<"<","C","A","L","L",":","5",">","X","9","X","Y","Z">>) }
\* Tags whose declared length is not the length of usable data: no data,
\* blank data, padded data, less data than declared, the largest int and
\* one more than the largest int.
OddChunks ==
  { Chunk("CALL", TagName["CALL"], 0, <<>>),
    Chunk("CALL", TagName["CALL"], 2, <<" ","\f">>),
    Chunk("CALL", TagName["CALL"], 7, <<"\f","K","1","A","B","C"," ">>),
    Chunk("CALL", TagName["CALL"], 9, <<"K","1","A">>),
    Chunk("MODE", TagName["MODE"], MaxInt, FT8),
    Chunk("MODE", TagName["MODE"], MaxInt + 1, FT8) }
Chunks == WellFormedChunks \cup OddChunks
SeqsUpTo(S, n) == UNION {[1..k -> S] : k \in 0..n}
\* The payload a sequence of chunks stands for.
Render(desc) ==
  The({Concat(parts, 1, Len(parts)) : parts \in {[k \in 1..Len(desc) |-> desc[k].tag \o desc[k].data]}})
\* Payloads of up to MaxChunks different chunks, at most one of them odd.
AdifInputs ==
  {d \in SeqsUpTo(Chunks, MaxChunks) :
     /\ \A j, k \in DOMAIN d : j # k => d[j] # d[k]
     /\ \A j, k \in DOMAIN d : (d[j] \in OddChunks /\ d[k] \in OddChunks) => j = k}

\* Records of a batch (text and the call sign it carries) and what may
\* stand between the <EOR> of one record and the next record.
BatchRecords ==
  { [text |-> <<"<","C","A","L","L",":","5",">","K","1","A","B","C">>, call |-> K1ABC],
    [text |-> <<"<","C","A","L","L",":","5",">","K","2","D","E","F"," ","<","M","O","D","E",":","3",">","F","T","8"," ">>, call |-> K2DEF],
    [text |-> <<"<","M","O","D","E",":","3",">","F","T","8","<","c","a","l","l",":","5",">","K","1","A","B","C">>, call |-> K1ABC],
    [text |-> <<"<","c","a","l","l",":","6",">","K","2","D","E","F"," ">>, call |-> K2DEF] }
Separators == { <<>>, <<" ">>, <<"\n">>, <<"\r","\n","\f"," ">> }
BatchParts == [rec : BatchRecords, sep : Separators]
RenderBatch(b) ==
  The({Concat(parts, 1, Len(parts)) : parts \in {[k \in 1..Len(b) |-> b[k].rec.text \o EOR \o b[k].sep]}})
BatchInputs == SeqsUpTo(BatchParts, MaxRecords) \ {<<>>}

\* Datagrams the listener may receive.
XmlProlog == <<"<","?","x","m","l"," ","v","e","r","s","i","o","n","=","\"","1",".","0","\"","?",">">>
XmlElement(name, text) == <<"<">> \o name \o <<">">> \o text \o <<"<","/">> \o name \o <<">">>
XmlDoc(children) ==
  XmlProlog
  \o XmlElement(ContactInfoName,
                Concat([k \in 1..Len(children) |->
                          XmlElement(XmlElements[children[k][1]], children[k][2])],
                       1, Len(children)))
XmlBody ==
  << <<"timestamp", <<"2","0","2","4","-","0","1","-","0","2","T","0","3",":","0","4",":","0","5">>>>, <<"mode", <<"U","S","B">>>>,
     <<"txfreq", <<"1","4","0","7","4","0","0">>>>, <<"rxfreq", <<"1","4","0","7","4","0","0">>>>, <<"power", <<"5">>>> >>
PayloadSingle == <<"<","C","A","L","L",":","5",">","K","1","A","B","C","<","F","R","E","Q",":","6",">","1","4",".","0","7","4","<","C","O","M","M","E","N","T",":","3",">","X","M","L">>
PayloadBatch == <<"<","C","A","L","L",":","5",">","K","1","A","B","C","<","E","O","R",">","\n","<","C","A","L","L",":","5",">","K","2","D","E","F"," ","<","T","X","_","P","W","R",":","5",">","1",".","5","k","W","<","E","O","R",">","\n">>
PayloadBadFirst == <<"<","M","O","D","E",":","3",">","F","T","8","<","E","O","R",">","<","C","A","L","L",":","5",">","K","2","D","E","F","<","E","O","R",">">>
PayloadHugeLength ==
  Chunk("CALL", TagName["CALL"], MaxInt, K1ABC).tag \o K1ABC \o EOR \o <<"<","C","A","L","L",":","5",">","K","2","D","E","F","<","E","O","R",">">>
PayloadXml == XmlDoc(<< <<"call", K1ABC>> >> \o XmlBody) \o EOR
PayloadXmlNoCall == XmlDoc(XmlBody)
PayloadAdifWithXml == <<"<","C","A","L","L",":","5",">","K","1","A","B","C","<","C","O","M","M","E","N","T",":","3",">","x","m","l","<","E","O","R",">","<","C","A","L","L",":","5",">","K","2","D","E","F","<","E","O","R",">">>
Payloads ==
  { PayloadSingle, PayloadBatch, PayloadBadFirst, PayloadHugeLength,
    PayloadXml, PayloadXmlNoCall, PayloadAdifWithXml, <<>> }

\* XML documents handed to the XML parser on its own.
XmlInputs ==
  { PayloadXml, PayloadXmlNoCall,
    <<"<","?","x","m","l"," ","v","e","r","s","i","o","n","=","\"","1",".","0","\""," ","e","n","c","o","d","i","n","g","=","\"","U","T","F","-","8","\"","?",">","<","!","-","-"," ","l","o","g"," ","-","-",">","<","c","o","n","t","a","c","t","i","n","f","o"," ","a","p","p","=","\"","W","S","J","T","-","X","\"",">","<","c","a","l","l",">","K","1","A","B","C","<","/","c","a","l","l",">","<","I","D",">","1","<","/","I","D",">","<","t","i","m","e","s","t","a","m","p",">","2","0","2","4","-","0","1","-","0","2","T","3",":","0","4",":","0","5",".","5","<","/","t","i","m","e","s","t","a","m","p",">","<","m","o","d","e"," ","t","y","p","e","=","'","x","'",">","U","S","B","<","/","m","o","d","e",">","<","t","x","f","r","e","q",">","1","2","3","4","5",".","6","5","<","/","t","x","f","r","e","q",">","<","r","x","f","r","e","q",">","1",".","4","0","7","4","e","6","<","/","r","x","f","r","e","q",">","<","c","o","m","m","e","n","t",">","A","&","a","m","p",";","B"," ","<","!","[","C","D","A","T","A","[","<","C",">","]","]",">","<","/","c","o","m","m","e","n","t",">","<","p","o","w","e","r","/",">","<","e","x","t","r","a",">","<","c","a","l","l",">","K","2","D","E","F","<","/","c","a","l","l",">","<","/","e","x","t","r","a",">","<","/","c","o","n","t","a","c","t","i","n","f","o",">">>,
    <<"<","c","o","n","t","a","c","t","i","n","f","o",">","<","c","a","l","l",">","K","1","A","B","C","<","/","c","a","l","l",">","<","t","i","m","e","s","t","a","m","p",">","2","0","2","4","-","0","1","-","0","2","T","0","3",":","0","4",":","0","5","<","/","t","i","m","e","s","t","a","m","p",">","<","t","x","f","r","e","q",">","1","4","0","7","4","0","0","<","/","t","x","f","r","e","q",">","<","r","x","f","r","e","q",">","1","4","0","7","4","0","0","<","/","r","x","f","r","e","q",">","<","c","o","m","m","e","n","t",">","x","m","l","<","/","o","p","e","r","a","t","o","r",">","<","/","c","o","n","t","a","c","t","i","n","f","o",">">>,
    XmlDoc(<< <<"call", K2DEF>>, <<"timestamp", <<"2","0","2","4","-","0","2","-","2","9","T","2","3",":","5","9",":","5","9">>>>,
              <<"txfreq", <<"1","4","0","7","4","0","0","0","0","0">>>>, <<"rxfreq", <<"7","0","4","0","0","0">>>> >>),
    XmlDoc(<< <<"call", K2DEF>>, <<"timestamp", <<"2","0","2","3","-","0","2","-","2","9","T","2","3",":","5","9",":","5","9">>>>,
              <<"txfreq", <<"1","4","0","7","4","0","0">>>>, <<"rxfreq", <<"7","0","4","0","0","0">>>> >>),
    XmlDoc(<< <<"call", K1ABC>>, <<"timestamp", <<"2","0","2","4","-","0","1","-","0","2","T","0","3",":","0","4",":","0","5">>>>,
              <<"txfreq", <<>>>>, <<"rxfreq", <<"7","0","4","0","0","0">>>> >>),
    XmlDoc(<< <<"call", K1ABC>>, <<"timestamp", <<"2","0","2","4","-","0","1","-","0","2","T","0","3",":","0","4",":","0","5">>>>,
              <<"txfreq", <<"1","8","0","0","0","0",".","5">>>>, <<"rxfreq", <<"7","0","4","0","0","0">>>>, <<"mode", FT8>> >>),
    \* An integer beyond 2^53, and values that are no numbers.
    XmlDoc(<< <<"call", K1ABC>>, <<"timestamp", <<"2","0","2","4","-","0","1","-","0","2","T","0","3",":","0","4",":","0","5">>>>,
              <<"txfreq", <<"9","0","0","7","1","9","9","2","5","4","7","4","0","9","9","3">>>>, <<"rxfreq", <<"0","7","0","4","0","0","0">>>> >>),
    XmlDoc(<< <<"call", K1ABC>>, <<"timestamp", <<"2","0","2","4","-","0","1","-","0","2","T","0","3",":","0","4",":","0","5">>>>,
              <<"txfreq", <<"I","n","f">>>>, <<"rxfreq", <<"N","a","N">>>> >>),
    \* Character references to U+0060, U+00E9, U+00A0 and U+212A (the Kelvin
    \* sign, whose lower case is k), and the two bytes of U+00C9.
    XmlDoc(<< <<"call", <<"K","1","&","#","9","6",";">>>>,
              <<"comment", <<"c","a","f","&","#","2","3","3",";"," ","xC3","x89">>>>,
              <<"power", <<"&","#","x","A","0",";","5","&","#","x","2","1","2","A",";","W">>>> >>
           \o SubSeq(XmlBody, 1, 4)),
    \* A byte that is no UTF-8, and a reference to a character XML forbids.
    XmlDoc(<< <<"call", <<"K","1","xFF">>>> >> \o XmlBody),
    XmlDoc(<< <<"call", <<"K","1","&","#","x","F","F","F","E",";">>>> >> \o XmlBody) }

(***************************************************************************)
(* State.                                                                  *)
(***************************************************************************)
VARIABLES
  buffer,    \* the bytes ReadFromUDP last stored in the receive buffer
  received,  \* datagrams read so far
  tasks,     \* the goroutines started by `go processMessage(message)`
  sent,      \* the calls of sendToWaveLog, in the order they were made
  crashed,   \* the process died of a panic no goroutine recovers
  u          \* a parser, normaliser, serialiser or splitter run on its own

vars == <<buffer, received, tasks, sent, crashed, u>>
pipelineVars == <<buffer, received, tasks, sent, crashed>>

NewTask(message) ==
  [message |-> message, pc |-> "start", kind |-> "", records |-> <<>>, i |-> 0,
   processedCount |-> 0, passed |-> <<>>]
UIdle ==
  [kind |-> "idle", in |-> <<>>, msg |-> <<>>, stage |-> "idle",
   status |-> "", qso |-> EmptyQSO, adif |-> <<>>, segs |-> <<>>,
   hz |-> 0 - 1, out |-> <<>>]
UInput(kind, in, msg) == [UIdle EXCEPT !.kind = kind, !.in = in, !.msg = msg, !.stage = "input"]

\* TX_PWR texts: without a numeric token, bare numbers, kilowatts and
\* milliwatts, with blanks, mixed case and bytes beyond ASCII.
PowerInputs ==
  { <<>>, <<"f","o","o">>, <<"F","O","O">>, <<" ","H","i","g","h"," ">>, <<".","5">>, <<"1","0","0">>, <<"5",".">>, <<"5"," ","W">>, <<"1","2",".","5">>,
    <<"1",".","2","3","4","6">>, <<"0",".","0","0","0","4">>, <<"1",".","5","k","w">>, <<"1",".","5","k","W">>, <<" ","2"," ","K","W">>, <<"1",".","0","0","1","k","w">>, <<"2","k","w","m","w">>,
    <<"5","0","0","m","w">>, <<"1","5","0","0","m","w">>, <<"3","0","0","0","m","w">>, <<"0",".","4","m","w">>,
    <<"\f","5","w">>, <<"1","2","3","4","5",".","6","7","8","9","0","1">>,
    \* Beyond ASCII: U+00C9; 5, the Kelvin sign and W; U+00A0 and a vertical
    \* tab around 5w; a byte that is no UTF-8.
    <<"xC3","x89">>, <<"5","xE2","x84","xAA","W">>, <<"xC2","xA0","5","w","x0B">>,
    <<"5","W","xFF">> }
\* A frequency of hz Hz written in MHz with d decimals.
FreqText(hz, d) ==
  Itoa(hz \div 1000000)
  \o (IF d = 0 THEN <<>> ELSE <<".">> \o PadDigits((hz % 1000000) \div 10 ^ (6 - d), d))
\* FREQ texts with the frequency each one writes: every limit of the band
\* table, the frequencies 1 Hz below and above it, and frequencies inside
\* and outside the bands.
FreqInputs ==
  LET limits == UNION {{bandMap[k][2] * 1000, bandMap[k][3] * 1000} : k \in DOMAIN bandMap}
  IN  {[hz |-> l + d, msg |-> FreqText(l + d, 6)] : l \in limits, d \in {0 - 1, 0, 1}}
        \cup {[hz |-> f, msg |-> FreqText(f, 3)] :
                f \in limits \cup {14074000, 7040000, 1900000, 13000000, 1000, 2000000000 - 1000}}
        \cup {[hz |-> f, msg |-> FreqText(f, 0)] : f \in {2000000, 14000000, 1300000000, 0}}
\* FREQ texts in the other notations strconv.ParseFloat reads (exponent,
\* hexadecimal, sign, underscore), with the frequency each one parses
\* to; the last one lies below 18.068 by less than float64 tells apart.
FreqForms ==
  { [hz |-> 10000000, msg |-> <<"1","e","1">>], [hz |-> 14000000, msg |-> <<"1",".","4","e","1">>],
    [hz |-> 14074000, msg |-> <<"1","4","0","7","4","e","-","3">>], [hz |-> 14000000, msg |-> <<"0","x","1",".","c","p","3">>],
    [hz |-> 7000000, msg |-> <<"+","7">>], [hz |-> 14000000, msg |-> <<"1","_","4">>], [hz |-> 144000000, msg |-> <<"1",".","4","4","E","+","2">>],
    [hz |-> 18068000, msg |-> <<"1","8",".","0","6","7","9","9","9","9","9","9","9","9","9","9","9","9","9","9","9","9">>] }
\* FREQ texts strconv.ParseFloat reads as no finite positive frequency.
FreqUnbounded == { <<"i","n","f">>, <<"+","I","n","f","i","n","i","t","y">>, <<"-","I","n","f">>, <<"N","a","N">>, <<"-","1","4",".","0","7","4">> }
\* FREQ texts strconv.ParseFloat rejects.
FreqRejected == { <<"1","e","4","0","0">>, <<"0","x","1",".","c">>, <<"1","_","_","4">>, <<>>, <<"n","o","t","-","a","-","n","u","m","b","e","r">>, <<"1","4",",","0","7","4">>, <<"1","4",".","0","7","4"," ","M","H","z">>, <<"1","4",".","0",".","7">>, <<".">> }
PipelineInit ==
  /\ buffer = <<>>
  /\ received = 0
  /\ tasks = <<>>
  /\ sent = <<>>
  /\ crashed = FALSE
Init == PipelineInit /\ u = UIdle

(***************************************************************************)
(* The listener and the per-datagram goroutines.                           *)
(***************************************************************************)
\* One iteration of the loop of startUDPServer: ReadFromUDP stores the
\* datagram in the buffer, message is a copy of it, a goroutine is started.
ReceiveDatagram(payload) ==
  /\ ~crashed
  /\ received < MaxDatagrams
  /\ buffer' = payload
  /\ received' = received + 1
  /\ tasks' = Append(tasks, NewTask(payload))
  /\ UNCHANGED <<sent, crashed, u>>

\* processMessage: the format dispatch; an XML payload and a payload without
\* <EOR> are one record, any other payload is split on <EOR>.
StartTask(task) ==
  The({[task EXCEPT !.pc = "loop", !.kind = kind,
                    !.records = IF kind = "batch" THEN Split(task.message, EOR)
                                ELSE <<task.message>>] :
     kind \in {Dispatch(task.message)}})
\* A variant in which the goroutine is handed the receive buffer itself and
\* reads it when it starts to run; C20 tells the code from it.
processMessageOnBuffer(t) ==
  /\ ~crashed
  /\ tasks[t].pc = "start"
  /\ tasks' = [tasks EXCEPT ![t] = StartTask([tasks[t] EXCEPT !.message = buffer])]
  /\ UNCHANGED <<buffer, received, sent, crashed, u>>
processMessage(t) ==
  /\ ~crashed
  /\ tasks[t].pc = "start"
  /\ tasks' = [tasks EXCEPT ![t] = StartTask(tasks[t])]
  /\ UNCHANGED <<buffer, received, sent, crashed, u>>

\* The text the task hands to processSingleQSO next (<<>> in a batch: the
\* element is skipped).
CurrentSegment(task) ==
  IF task.kind = "batch" THEN SegmentAt(task.records, task.i) ELSE task.records[1]
AtRecord(t) ==
  /\ ~crashed
  /\ tasks[t].pc = "loop"
  /\ tasks[t].i < Len(tasks[t].records)
\* What processSingleQSO does with the i-th text of each payload, up to the
\* call of sendToWaveLog; a function of the payload alone, tabulated once.
PayloadOutcomes ==
  [message \in Payloads |->
     The({[i \in 0 .. Len(task.records) - 1 |->
             processSingleQSO(CurrentSegment([task EXCEPT !.i = i]), task.kind = "xml")] :
        task \in {StartTask(NewTask(message))}})]
Outcome(task) == PayloadOutcomes[task.message][task.i]

\* if qsoRecord == "" { continue }
SkipEmptyRecord(t) ==
  /\ AtRecord(t)
  /\ tasks[t].kind = "batch"
  /\ CurrentSegment(tasks[t]) = <<>>
  /\ tasks' = [tasks EXCEPT ![t].i = @ + 1]
  /\ UNCHANGED <<buffer, received, sent, crashed, u>>
Handed(t) ==
  /\ AtRecord(t)
  /\ (tasks[t].kind = "batch" => CurrentSegment(tasks[t]) # <<>>)
\* processSingleQSO returns false after a parse error.
ParseFails(t) ==
  /\ Handed(t)
  /\ Outcome(tasks[t]).status = "error"
  /\ tasks' = [tasks EXCEPT ![t].i = @ + 1,
                            ![t].passed = Append(@, CurrentSegment(tasks[t]))]
  /\ UNCHANGED <<buffer, received, sent, crashed, u>>
\* The parser panics; nothing recovers, the runtime ends the process.
ParsePanics(t) ==
  /\ Handed(t)
  /\ Outcome(tasks[t]).status = "panic"
  /\ tasks' = [tasks EXCEPT ![t].passed = Append(@, CurrentSegment(tasks[t]))]
  /\ crashed' = TRUE
  /\ UNCHANGED <<buffer, received, sent, u>>
\* A variant that would start the request and go on with the next record
\* at once; C7 tells the code from it.
SendWithoutWaiting(task) == [task EXCEPT !.i = @ + 1]
\* The task is inside sendToWaveLog, waiting for the HTTP response.
AwaitResponse(task) == [task EXCEPT !.pc = "send"]
\* The record parsed: it is normalised, serialised and sendToWaveLog is
\* called with it.
SubmitQSO(t) ==
  /\ Handed(t)
  /\ \E r \in {Outcome(tasks[t])} :
       /\ r.status = "ok"
       /\ sent' = Append(sent, [task |-> t, seg |-> tasks[t].i, adif |-> r.adif,
                                call |-> r.qso["CALL"], returned |-> FALSE])
  /\ tasks' = [tasks EXCEPT ![t] =
                 AwaitResponse([@ EXCEPT !.passed = Append(@, CurrentSegment(tasks[t]))])]
  /\ UNCHANGED <<buffer, received, crashed, u>>
\* The call of task t that has not returned yet.
Pending(t) == CHOOSE k \in DOMAIN sent : sent[k].task = t /\ ~sent[k].returned
\* sendToWaveLog returns nil: processMultipleQSOs counts the record as
\* processed.
SendSucceeds(t) ==
  /\ ~crashed
  /\ tasks[t].pc = "send"
  /\ tasks' = [tasks EXCEPT ![t].pc = "loop", ![t].i = @ + 1,
                            ![t].processedCount = IF tasks[t].kind = "batch" THEN @ + 1 ELSE @]
  /\ sent' = [sent EXCEPT ![Pending(t)].returned = TRUE]
  /\ UNCHANGED <<buffer, received, crashed, u>>
\* A variant that would hand the record to sendToWaveLog again after a
\* failed attempt; C11 tells the code from it.
SendFailsAndRetries(t) ==
  /\ ~crashed
  /\ tasks[t].pc = "send"
  /\ tasks' = [tasks EXCEPT ![t].pc = "loop"]
  /\ sent' = [sent EXCEPT ![Pending(t)].returned = TRUE]
  /\ UNCHANGED <<buffer, received, crashed, u>>
\* sendToWaveLog returns an error: it is logged and the record dropped.
SendFails(t) ==
  /\ ~crashed
  /\ tasks[t].pc = "send"
  /\ tasks' = [tasks EXCEPT ![t].pc = "loop", ![t].i = @ + 1]
  /\ sent' = [sent EXCEPT ![Pending(t)].returned = TRUE]
  /\ UNCHANGED <<buffer, received, crashed, u>>
\* The loop is over and the goroutine ends.
FinishTask(t) ==
  /\ ~crashed
  /\ tasks[t].pc = "loop"
  /\ tasks[t].i = Len(tasks[t].records)
  /\ tasks' = [tasks EXCEPT ![t].pc = "done"]
  /\ UNCHANGED <<buffer, received, sent, crashed, u>>

Next ==
  \/ \E payload \in Payloads : ReceiveDatagram(payload)
  \/ \E t \in DOMAIN tasks : processMessage(t)
  \/ \E t \in DOMAIN tasks : SkipEmptyRecord(t)
  \/ \E t \in DOMAIN tasks : ParseFails(t)
  \/ \E t \in DOMAIN tasks : ParsePanics(t)
  \/ \E t \in DOMAIN tasks : SubmitQSO(t)
  \/ \E t \in DOMAIN tasks : SendSucceeds(t)
  \/ \E t \in DOMAIN tasks : SendFails(t)
  \/ \E t \in DOMAIN tasks : FinishTask(t)
Spec == Init /\ [][Next]_vars

(***************************************************************************)
(* The parsers, the normaliser, the serialiser and the splitter on their   *)
(* own, on one input each.                                                 *)
(***************************************************************************)
UnitInit ==
  /\ PipelineInit
  /\ u \in {UInput("adif", d, Render(d)) : d \in AdifInputs}
       \cup {UInput("batch", b, RenderBatch(b)) : b \in BatchInputs}
       \cup {UInput("xml", <<>>, x) : x \in XmlInputs}
       \cup {UInput("power", <<>>, p) : p \in PowerInputs}
       \cup {[UInput("freq", <<>>, f.msg) EXCEPT !.hz = f.hz] : f \in FreqInputs \cup FreqForms}
       \cup {UInput("freq", <<>>, f) : f \in FreqRejected \cup FreqUnbounded}
\* parseADIFMessage(msg) or parseXMLMessage(msg).
UParse ==
  /\ u.stage = "input"
  /\ u.kind \in {"adif", "xml"}
  /\ \E r \in {IF u.kind = "xml" THEN parseXMLMessage(u.msg) ELSE parseADIFMessage(u.msg)} :
       u' = [u EXCEPT !.stage = "parsed", !.status = r.status, !.qso = r.qso]
  /\ UNCHANGED pipelineVars
\* normalizeQSO(qso)
UNormalize ==
  /\ u.stage = "parsed"
  /\ u.status = "ok"
  /\ u' = [u EXCEPT !.stage = "normalized", !.qso = normalizeQSO(u.qso)]
  /\ UNCHANGED pipelineVars
\* generateADIF(qso) of the normalised record, as processSingleQSO calls it.
UGenerate ==
  /\ u.stage = "normalized"
  /\ u' = [u EXCEPT !.stage = "generated", !.adif = generateADIF(u.qso)]
  /\ UNCHANGED pipelineVars
\* generateADIF(qso) of the record as parsed.
USerialize ==
  /\ u.stage = "parsed"
  /\ u.status = "ok"
  /\ u' = [u EXCEPT !.stage = "serialized", !.adif = generateADIF(u.qso)]
  /\ UNCHANGED pipelineVars
\* The texts processMultipleQSOs hands to processSingleQSO.
USplit ==
  /\ u.stage = "input"
  /\ u.kind = "batch"
  /\ u' = [u EXCEPT !.stage = "split", !.segs = BatchSegments(u.msg)]
  /\ UNCHANGED pipelineVars
\* normalizePower(powerStr)
UPower ==
  /\ u.stage = "input"
  /\ u.kind = "power"
  /\ u' = [u EXCEPT !.stage = "once", !.out = <<normalizePower(u.msg)>>]
  /\ UNCHANGED pipelineVars
\* normalizePower of the TX_PWR a first normalisation produced.
UPowerAgain ==
  /\ u.stage = "once"
  /\ u' = [u EXCEPT !.stage = "twice", !.out = u.out \o <<normalizePower(u.out[1])>>]
  /\ UNCHANGED pipelineVars
\* calculateBand(freqStr)
UBand ==
  /\ u.stage = "input"
  /\ u.kind = "freq"
  /\ u' = [u EXCEPT !.stage = "band", !.out = <<calculateBand(u.msg)>>]
  /\ UNCHANGED pipelineVars
UnitNext ==
  UParse \/ UNormalize \/ UGenerate \/ USerialize \/ USplit \/ UPower \/ UPowerAgain \/ UBand
UnitSpec == UnitInit /\ [][UnitNext]_vars

(***************************************************************************)
(* Properties.                                                             *)
(***************************************************************************)
IsPrefix(s, t) == Len(s) <= Len(t) /\ SubSeq(t, 1, Len(s)) = s
\* The calls of sendToWaveLog made by task t.
SentBy(t) == {k \in DOMAIN sent : sent[k].task = t}
\* The payloads with the substring xml, and those with the literal <EOR>.
WithXml == {p \in Payloads : \E k \in 0 .. Len(p) : HasPrefixAt(p, xml, k)}
WithEOR == {p \in Payloads : \E k \in 0 .. Len(p) : HasPrefixAt(p, EOR, k)}
\* What each parser makes of each payload taken whole.
AsXml == [p \in Payloads |-> parseXMLMessage(p)]
AsAdif == [p \in Payloads |-> parseADIFMessage(p)]
\* The chunk whose data is itself the text of a tag.
TagInData == {c \in Chunks : \E k \in 0 .. Len(c.data) : MatchTagAt(c.data, k) >= 0}
\* A payload of well-formed chunks only, one chunk per field at most, the
\* call sign among them.
ValidDesc(d) ==
  /\ \A k \in DOMAIN d : d[k] \in WellFormedChunks \ TagInData
  /\ \A j, k \in DOMAIN d : d[j].field = d[k].field => j = k
  /\ \E k \in DOMAIN d : d[k].field = "CALL"
CallChunks(d) == {k \in DOMAIN d : d[k].field = "CALL"}

\* C1: every record handed to sendToWaveLog has a non-empty CALL, whichever
\* parser produced it; a payload without a call sign is never submitted.
C1_SubmittedCallNonEmpty == \A k \in DOMAIN sent : sent[k].call # <<>>

\* C2: whatever the datagrams contain, no processMessage task ends the
\* process, so the listener can go on receiving.
C2_ProcessSurvives == ~crashed

\* C3: for every tag whose length converts to an int and whose data starts
\* inside the payload, fieldStart <= fieldEnd <= len(payload), a length
\* reaching past the end yields the data up to the end of the payload, and
\* the parse does not fail on the tag.
C3_LengthClamped ==
  (u.kind = "adif" /\ u.stage = "parsed") =>
    /\ u.status # "panic"
    /\ \A m \in Range(FindAllStringSubmatch(u.msg)) :
         \E fieldStart \in {Index(u.msg, m[1]) + Len(m[1])} :
         \E a \in {Atoi(m[3])} :
         \E b \in {FieldBounds(u.msg, m)} :
           (~a.err /\ fieldStart < Len(u.msg)) =>
             /\ b.kind = "data"
             /\ fieldStart <= b.fieldEnd
             /\ b.fieldEnd <= Len(u.msg)
             /\ (fieldStart + a.val > Len(u.msg) => b.fieldEnd = Len(u.msg))

\* C4: parseADIFMessage then generateADIF of a valid payload with a CALL:
\* for every recognised tag of the input the output has that tag with the
\* input's value.
C4_RoundTripKeepsFields ==
  (u.kind = "adif" /\ u.stage = "serialized" /\ ValidDesc(u.in)) =>
    \A k \in DOMAIN u.in :
      u.in[k].field \in DOMAIN ParseSwitch => Contains(u.adif, u.in[k].tag \o u.in[k].data)

\* C5: parseADIFMessage returns an error, with the empty record, exactly
\* when the payload has no CALL tag or its CALL tag has no data or blank
\* data; nothing else makes it fail.
C5_ErrorIffCallMissing ==
  (/\ u.kind = "adif"
   /\ u.stage = "parsed"
   /\ Cardinality(CallChunks(u.in)) <= 1
   /\ \A k \in DOMAIN u.in : u.in[k] \notin TagInData) =>
    /\ u.status \in {"ok", "error"}
    /\ u.status = "error" <=>
         \A k \in CallChunks(u.in) : u.in[k].decl = 0 \/ TrimSpace(u.in[k].data) = <<>>
    /\ u.status = "error" => u.qso = EmptyQSO

\* C6: processMultipleQSOs passes every non-empty trimmed segment of a batch
\* to processSingleQSO once, in order, and no outcome of one segment keeps
\* the later segments from being passed.
C6_EverySegmentPassed ==
  \A t \in DOMAIN tasks :
    tasks[t].kind = "batch" =>
      \E segs \in {BatchSegments(tasks[t].message)} :
        /\ IsPrefix(tasks[t].passed, segs)
        /\ tasks[t].pc = "done" => tasks[t].passed = segs
        /\ Len(tasks[t].passed) < Len(segs) => ~crashed

\* C7: within one datagram the calls of sendToWaveLog are made in record
\* order, each has returned before the next record is looked at, and while
\* one has not returned its task is waiting in it.
C7_SequentialInOrder ==
  \A t \in DOMAIN tasks :
    /\ \A j, k \in SentBy(t) : j < k => (sent[j].seg < sent[k].seg /\ sent[j].returned)
    /\ \A k \in SentBy(t) :
         /\ sent[k].adif = PayloadOutcomes[tasks[t].message][sent[k].seg].adif
         /\ IF sent[k].returned THEN sent[k].seg < tasks[t].i
            ELSE tasks[t].pc = "send" /\ tasks[t].i = sent[k].seg
    /\ tasks[t].pc = "send" => \E k \in SentBy(t) : ~sent[k].returned
\* Two records of a batch were sent, with a record of another datagram sent
\* in between.
C7_Witness ==
  \E j, k, l \in DOMAIN sent :
    /\ j < k /\ k < l
    /\ sent[j].task = sent[l].task
    /\ sent[k].task # sent[j].task
    /\ tasks[sent[j].task].kind = "batch"
    /\ sent[l].returned

\* C8: a payload of N records, each ended by <EOR>, with or without white
\* space after the <EOR>s, is split into N texts, and the i-th text parses
\* to the CALL of the i-th record.
C8_SplitKeepsRecords ==
  (u.kind = "batch" /\ u.stage = "split") =>
    /\ Len(u.segs) = Len(u.in)
    /\ \A k \in DOMAIN u.in :
         k <= Len(u.segs) =>
           \E r \in {parseADIFMessage(u.segs[k])} :
             r.status = "ok" /\ r.qso["CALL"] = u.in[k].rec.call

\* C9: a payload goes to the XML parser exactly when it contains xml, and
\* then as one record, <EOR> or not; any other payload is split exactly
\* when it contains <EOR>, and otherwise parsed as one ADIF record as it is.
C9_FormatDispatch ==
  \A t \in DOMAIN tasks :
    tasks[t].pc # "start" =>
      \E m \in {tasks[t].message} :
        /\ tasks[t].kind = "xml" <=> m \in WithXml
        /\ tasks[t].kind = "batch" <=> (m \notin WithXml /\ m \in WithEOR)
        /\ tasks[t].kind = "single" <=> (m \notin WithXml /\ m \notin WithEOR)
        /\ tasks[t].kind # "batch" =>
             \E r \in {IF m \in WithXml THEN AsXml[m] ELSE AsAdif[m]} :
               /\ tasks[t].records = <<m>>
               /\ IsPrefix(tasks[t].passed, <<m>>)
               /\ \A k \in SentBy(t) :
                    sent[k].seg = 0 /\ r.status = "ok" /\ sent[k].call = r.qso["CALL"]
               /\ (tasks[t].pc = "done" /\ r.status = "ok") => SentBy(t) # {}
\* An XML payload that contains <EOR> was processed as one record and sent.
C9_Witness ==
  \E t \in DOMAIN tasks :
    /\ tasks[t].message \in WithXml \cap WithEOR
    /\ tasks[t].pc = "done"
    /\ tasks[t].passed = <<tasks[t].message>>
    /\ SentBy(t) # {}

\* C10: after normalizeQSO a record with a FREQ has BAND = calculateBand(FREQ),
\* and a BAND tag in the ADIF input changes neither the record's BAND nor
\* the serialised output.
WithoutBand(d) == SelectSeq(d, LAMBDA c : c.field # "BAND")
C10_BandFollowsFreq ==
  (u.stage \in {"normalized", "generated"}) =>
    /\ u.qso["FREQ"] # <<>> => u.qso["BAND"] = calculateBand(u.qso["FREQ"])
    /\ (u.kind = "adif" /\ WithoutBand(u.in) # u.in
        /\ \A k \in DOMAIN u.in : u.in[k] \in WellFormedChunks \ TagInData) =>
         \E r \in {processSingleQSO(Render(WithoutBand(u.in)), FALSE)} :
           /\ r.status = "ok"
           /\ u.qso = r.qso
           /\ u.stage = "generated" => u.adif = r.adif
\* A record from a payload with <FREQ:6>14.074 and <BAND:3>40M was
\* serialised with the band of 14.074 MHz.
C10_Witness ==
  /\ u.kind = "adif"
  /\ u.stage = "generated"
  /\ \E k \in DOMAIN u.in : u.in[k].field = "BAND"
  /\ \E k \in DOMAIN u.in : u.in[k].field = "FREQ"
  /\ u.qso["BAND"] \notin {<<>>, <<"4","0","M">>}
  /\ Contains(u.adif, FieldTag("BAND", u.qso["BAND"]))

\* C11: a record that parsed is handed to sendToWaveLog once and never
\* again, whether the attempt fails or not; a record that did not parse is
\* never handed to it.
AttemptsFor(t, i) == Cardinality({k \in SentBy(t) : sent[k].seg = i})
C11_OneAttemptPerRecord ==
  \A t \in DOMAIN tasks :
    \A i \in 0 .. Len(tasks[t].records) - 1 :
      \E n \in {AttemptsFor(t, i)} :
        /\ n <= 1
        /\ i < tasks[t].i =>
             n = IF PayloadOutcomes[tasks[t].message][i].status = "ok" THEN 1 ELSE 0
        /\ i = tasks[t].i => n = IF tasks[t].pc = "send" THEN 1 ELSE 0
        /\ i > tasks[t].i => n = 0
\* A batch is done: its first record did not parse and was not sent, its
\* second was sent once, the attempt failed, and nothing more was sent.
C11_Witness ==
  \E t \in DOMAIN tasks :
    /\ tasks[t].pc = "done"
    /\ tasks[t].message = PayloadBadFirst
    /\ tasks[t].processedCount = 0
    /\ AttemptsFor(t, 0) = 0
    /\ AttemptsFor(t, 1) = 1
    /\ \A k \in SentBy(t) : sent[k].returned

\* The text of the element e of the XML document under test.
ElementText(e) == XmlUnmarshal(u.msg).info[e]
IsDigits(s) == s # <<>> /\ \A k \in DOMAIN s : s[k] \in DigitSet
\* The integer written by the decimal digits ds, divided by 100000 and
\* written with six decimals: the digits of the integer without its leading
\* zeros, filled up to six digits, with the point before the last five and
\* one more 0 behind them.
HundredThousandth(ds) ==
  LET zeros == MinOf({k \in 1..Len(ds) : ds[k] # "0"} \cup {Len(ds) + 1}) - 1
      width == MaxOf({6, Len(ds) - zeros})
      digits == [k \in 1..width |->
                   IF k <= width - (Len(ds) - zeros) THEN "0"
                   ELSE ds[zeros + k - (width - (Len(ds) - zeros))]]
  IN  SubSeq(digits, 1, width - 5) \o <<".">> \o SubSeq(digits, width - 4, width) \o <<"0">>
\* The example of C12: a txfreq of 1407400000 yields FREQ 14.074000.
C12_Example ==
  (u.kind = "xml" /\ u.stage = "parsed" /\ ElementText("txfreq") = <<"1","4","0","7","4","0","0","0","0","0">>) =>
    (u.status = "ok" /\ u.qso["FREQ"] = <<"1","4",".","0","7","4","0","0","0">>)
\* The rule of C12: FREQ and FREQ_RX are the integer values of txfreq and
\* rxfreq divided by 100000, written with exactly six decimals.
C12_Rule ==
  (u.kind = "xml" /\ u.stage = "parsed" /\ u.status = "ok") =>
    \E tx \in {ElementText("txfreq")} : \E rx \in {ElementText("rxfreq")} :
      /\ IsDigits(tx) => u.qso["FREQ"] = HundredThousandth(tx)
      /\ IsDigits(rx) => u.qso["FREQ_RX"] = HundredThousandth(rx)
\* C12: in parseXMLMessage a txfreq element of 1407400000 yields a record
\* whose FREQ is 14.074000, and in general FREQ (and FREQ_RX from rxfreq) is
\* the element's integer value divided by 100000, written with exactly six
\* decimals.
C12_FreqConversion == C12_Example /\ C12_Rule

\* The power texts without a leading numeric token after trimming and
\* lower-casing.
NoNumericToken(s) ==
  \E t \in {TrimSpace(ToLower(s))} : t = <<>> \/ t[1] \notin DigitSet

\* C13: for every input without a leading numeric token after trimming and
\* lower-casing, normalizePower returns the original input string unchanged,
\* character for character.
C13_FallbackKeepsInput ==
  (u.kind = "power" /\ u.stage = "once" /\ NoNumericToken(u.msg)) => u.out[1] = u.msg

\* The leading numeric token of a power text, and its value in thousandths
\* when it has at most three fractional digits.
TokenOf(s) == The({Slice(t, 0, NumericPrefixEnd(t)) : t \in {TrimSpace(ToLower(s))}})
FractionLen(token) ==
  IF Index(token, <<".">>) < 0 THEN 0 ELSE Len(token) - Index(token, <<".">>) - 1
Thousandths(token) ==
  The({IF dot < 0 THEN 1000 * DigitsValue(token, 1, 0)
       ELSE 1000 * DigitsValue(Slice(token, 0, dot), 1, 0)
            + DigitsValue(Slice(token, dot + 1, Len(token)), 1, 0)
              * 10 ^ (3 - FractionLen(token)) :
     dot \in {Index(token, <<".">>)}})
\* n / unit in decimal: without decimals when whole, else rounded to three.
ExactRendering(n, unit) ==
  IF n % unit = 0 THEN Itoa(n \div unit)
  ELSE The({Itoa(q \div 1000) \o <<".">> \o PadDigits(q % 1000, 3) :
            q \in {The({(2 * n + step) \div (2 * step) : step \in {MaxOf({1, unit \div 1000})}})}})
ExpectedPower(s) ==
  The({IF Contains(TrimSpace(ToLower(s)), <<"k","w">>) THEN ExactRendering(t, 1)
       ELSE IF Contains(TrimSpace(ToLower(s)), <<"m","w">>) THEN ExactRendering(t, 1000000)
       ELSE ExactRendering(t, 1000) :
     t \in {Thousandths(TokenOf(s))}})

\* C14: for every input with a leading numeric token v of at most three
\* fractional digits, the result is v * 1000 with "kw", v / 1000 with "mw"
\* ("kw" first), v otherwise, without decimals when the value is whole and
\* with exactly three decimals otherwise.
C14_PowerConversion ==
  (/\ u.kind = "power"
   /\ u.stage = "once"
   /\ ~NoNumericToken(u.msg)
   /\ FractionLen(TokenOf(u.msg)) <= 3) => u.out[1] = ExpectedPower(u.msg)

\* C19: normalizePower is idempotent: normalising the TX_PWR a first
\* normalisation produced gives that same text.
C19_PowerIdempotent ==
  (u.kind = "power" /\ u.stage = "twice") => u.out[2] = u.out[1]

\* The entries of the band table whose range, in Hz, contains hz.
BandsOf(hz) == {k \in DOMAIN bandMap : bandMap[k][2] * 1000 <= hz /\ hz <= bandMap[k][3] * 1000}

\* C15: calculateBand returns the name of the first entry of the 16-entry
\* band table whose inclusive range contains the parsed frequency, and the
\* empty string when no entry contains it or the text is not a number; at
\* most one entry contains a given frequency.
C15_BandOfFrequency ==
  /\ Len(bandMap) = 16
  /\ \A j, k \in DOMAIN bandMap : j < k => bandMap[j][3] < bandMap[k][2]
  /\ (u.kind = "freq" /\ u.stage = "band") =>
       \E hits \in {BandsOf(u.hz)} :
         /\ Cardinality(hits) <= 1
         /\ u.out[1] = IF hits = {} THEN <<>> ELSE BandChars[bandMap[MinOf(hits)][1]]
\* calculateBand("14.350") has returned "20M", the upper limit being part of
\* the band.
C15_Witness ==
  /\ u.kind = "freq"
  /\ u.stage = "band"
  /\ u.msg = <<"1","4",".","3","5","0">>
  /\ u.out = <<<<"2","0","M">>>>

\* The fields <NAME:len>value written one after the other from offset p of
\* s, each followed by one blank, read with a cursor: name, declared
\* length and value of each, and the offset where the reading stopped.
RECURSIVE ReadFields(_, _)
ReadFields(s, p) ==
  LET field(e) ==
        The({The({IF after >= Len(s) \/ s[after + 1] # " " THEN [fields |-> <<>>, p |-> p]
                  ELSE The({[fields |-> <<[name |-> m[2], len |-> m[3],
                                           value |-> Slice(s, e, after)]>> \o rest.fields,
                             p |-> rest.p] :
                          rest \in {ReadFields(s, after + 1)}}) :
                after \in {e + Atoi(m[3]).val}}) :
           m \in {Submatches(s, p, e)}})
  IN  The({IF e < 0 THEN [fields |-> <<>>, p |-> p] ELSE field(e) : e \in {MatchTagAt(s, p)}})
\* The entries of the serialisation order whose field is set in qso.
SetFields(qso) == SelectSeq(GenOrder, LAMBDA g : qso[g[1]] # <<>>)

\* C16: generateADIF writes the header <ADIF_VER:5>5.0<EOH> and a newline,
\* then exactly one tag <NAME:len>value for each non-empty serialisable
\* field, len being the length of the value, in the fixed order starting
\* CALL, QSO_DATE, TIME_ON, MODE, then <EOR> and a newline; no tag has
\* length 0.
C16_OmitsEmptyFields ==
  /\ <<GenOrder[1][2], GenOrder[2][2], GenOrder[3][2], GenOrder[4][2]>>
       = <<"CALL", "QSO_DATE", "TIME_ON", "MODE">>
  /\ u.stage \in {"serialized", "generated"} =>
       /\ IsPrefix(<<"<","A","D","I","F","_","V","E","R",":","5",">","5",".","0","<","E","O","H",">","\n">>, u.adif)
       /\ \E r \in {ReadFields(u.adif, Len(AdifHeader))} :
            \E set \in {SetFields(u.qso)} :
              /\ Slice(u.adif, r.p, Len(u.adif)) = <<"<","E","O","R",">","\n">>
              /\ Len(r.fields) = Len(set)
              /\ Len(set) = Cardinality({k \in DOMAIN GenOrder : u.qso[GenOrder[k][1]] # <<>>})
              /\ \A k \in DOMAIN r.fields :
                   /\ r.fields[k].name = TagName[set[k][2]]
                   /\ r.fields[k].value = u.qso[set[k][1]]
                   /\ r.fields[k].len = Itoa(Len(r.fields[k].value))
                   /\ r.fields[k].len # <<"0">>
\* A record with only CALL and MODE set has been serialised to the header,
\* two field tags and <EOR>.
C16_Witness ==
  /\ u.stage = "serialized"
  /\ {f \in QSOFields : u.qso[f] # <<>>} = {"CALL", "MODE"}
  /\ u.adif = <<"<","A","D","I","F","_","V","E","R",":","5",">","5",".","0","<","E","O","H",">","\n","<","C","A","L","L",":","5",">","K","1","A","B","C"," ","<","M","O","D","E",":","3",">","U","S","B"," ","<","E","O","R",">","\n">>

\* A parser that reads the message with a cursor: the next tag at or after
\* the cursor, the declared number of characters right after that tag as
\* its data (stored as parseADIFMessage stores it), then on from the end of
\* the data.  A length that is no int leaves the field and goes on after
\* the tag.
RECURSIVE StreamLoop(_, _, _)
StreamLoop(message, p, qso) ==
  LET read(i, e) ==
        The({IF n.err THEN StreamLoop(message, e, qso)
             ELSE The({StreamLoop(message, fieldEnd,
                                  AssignField(qso, m[2],
                                              TrimSpace(Slice(message, e, fieldEnd)))) :
                     fieldEnd \in {Min(e + n.val, Len(message))}}) :
           m \in {Submatches(message, i, e)},
           n \in {Atoi(Submatches(message, i, e)[3])}})
      next(tags) ==
        IF tags = {} THEN qso
        ELSE The({read(i, MatchTagAt(message, i)) : i \in {MinOf(tags)}})
  IN  The({next(tags) : tags \in {{i \in p .. Len(message) - 1 :
                              message[i + 1] = "<" /\ MatchTagAt(message, i) >= 0}}})
StreamParser(message) == ParseResult([panic |-> FALSE, qso |-> StreamLoop(message, 0, EmptyQSO)])

\* C17: for every well-formed payload (every tag followed by exactly the
\* declared number of characters of data), parseADIFMessage produces the
\* record a streaming-cursor parser produces, also when the same tag text
\* occurs twice with different data and when data contains the text of a
\* tag.
C17_LinearScanIsCursor ==
  (/\ u.kind = "adif"
   /\ u.stage = "parsed"
   /\ \A k \in DOMAIN u.in : u.in[k] \in WellFormedChunks) =>
    \E r \in {StreamParser(u.msg)} : u.status = r.status /\ u.qso = r.qso

EndsWithEOR(s) == Len(s) >= Len(EOR) /\ Slice(s, Len(s) - Len(EOR), Len(s)) = EOR

\* C18: of the segments processMultipleQSOs passes on, every one but the
\* last carries the reappended <EOR>, and the last surviving one is passed
\* without it, whether or not the payload ends with <EOR>.
C18_LastSegmentBare ==
  (u.kind = "batch" /\ u.stage = "split" /\ u.segs # <<>>) =>
    /\ \A k \in 1 .. Len(u.segs) - 1 : EndsWithEOR(u.segs[k])
    /\ ~EndsWithEOR(u.segs[Len(u.segs)])

\* What processMessage makes of each payload when it starts.
Started == [p \in Payloads |-> StartTask(NewTask(p))]
\* Everything task t holds and has handed on comes from message.
WorksOn(t, message) ==
  /\ tasks[t].message = message
  /\ tasks[t].pc # "start" =>
       /\ tasks[t].kind = Started[message].kind
       /\ tasks[t].records = Started[message].records
  /\ \A k \in SentBy(t) : sent[k].adif = PayloadOutcomes[message][sent[k].seg].adif

\* C20: the listener reuses one buffer and goes on reading while tasks
\* run, yet each task works on the bytes of the datagram it was started
\* for: the message of a new task is the datagram just read, the message of
\* a task never changes afterwards, whatever is read into the buffer, what
\* the task holds and sends comes from that message, only the listener
\* writes the buffer, and a step of one task leaves every other task as it
\* was.
C20_TaskOwnsItsDatagram ==
  [][/\ \A t \in DOMAIN tasks :
          /\ t \in DOMAIN tasks'
          /\ tasks'[t].message = tasks[t].message
     /\ \A t \in DOMAIN tasks' : (WorksOn(t, tasks[t].message))'
     /\ Len(tasks') # Len(tasks) =>
          /\ Len(tasks') = Len(tasks) + 1
          /\ tasks'[Len(tasks')].message = buffer'
          /\ \A t \in DOMAIN tasks : tasks'[t] = tasks[t]
     /\ buffer' # buffer => Len(tasks') = Len(tasks) + 1
     /\ Cardinality({t \in DOMAIN tasks : tasks'[t] # tasks[t]}) <= 1]_vars
\* The first task is waiting for the response to a record of its batch
\* while the buffer already holds a later, different datagram.
C20_Witness ==
  /\ received = 2
  /\ tasks[1].message = PayloadBatch
  /\ buffer = PayloadXml
  /\ tasks[2].message = PayloadXml
  /\ tasks[1].pc = "send"
  /\ tasks[2].pc = "start"
  /\ \E k \in SentBy(1) : sent[k].adif = PayloadOutcomes[PayloadBatch][sent[k].seg].adif
====
